---- MODULE Spec2Model ----
(***************************************************************************)
(* Karaoke audio capture / scoring engine (scorer.py, class Scorer) and    *)
(* the calls the player's main thread makes into it (karaoke_player.py).   *)
(*                                                                         *)
(* Two threads share the Scorer object without locks:                      *)
(*   - the audio worker, Scorer._process_audio, one step per access to a   *)
(*     shared field (program counter pc, locals in loc);                   *)
(*   - the control thread (player main loop), one call at a time, each     *)
(*     call again one step per shared access (program counter cpc).        *)
(* The API server's thread (api_server.py) sets the player's skip flag.    *)
(*                                                                         *)
(* Units: a level is an integer number of hundredths (1.5 is 150); the     *)
(* Euclidean norm of a raw buffer is a number of hundredths times frames;  *)
(* a gain is an integer multiplier.  A stream handle is <<>> when the      *)
(* field is None, <<device, frames_per_buffer>> for an open input stream   *)
(* and <<channels, rate, frames_per_buffer>> for an open output stream.    *)
(***************************************************************************)
EXTENDS Integers, Sequences, FiniteSets, TLC

VARIABLES
    \* ---- Scorer fields (scorer.py:28-63, 348-351)
    stream_mic1, stream_mic2, stream_output, output_channels,
    input_device_index_1, input_device_index_2,
    volume_mic1, volume_mic2, monitoring_enabled, difficulty,
    running, is_singing_segment, restart_requested,
    current_volume_mic1, current_volume_mic2, paused, chunk,
    total_samples, hit_samples, recent_hits,
    \* ---- audio worker thread: position and locals of _process_audio
    pc, loc,
    \* ---- control thread: position, arguments and locals of the call in
    \*      progress
    cpc, ctl,
    \* ---- KaraokePlayer fields
    state, player_paused, score_result,
    \* ---- the value get_current_accuracy last returned to the HUD
    acc,
    \* ---- KaraokePlayer lyric and playback fields (times in milliseconds):
    \*      the parsed lines, the page and line pointers, the offset added
    \*      to the media position, the song's length (0 = unknown), and the
    \*      position pygame.mixer.music.get_pos() reports (-1 = not playing)
    lyrics, page_index, current_line_index, current_offset_ms, total_duration,
    music_pos,
    \* ---- KaraokePlayer song fields: the song being played, its lyric files
    \*      and the index of the one in use, the audio variant the player
    \*      believes is playing, and the file pygame has loaded
    current_song, lyrics_files, current_lyrics_index, current_track_type,
    music_file,
    \* ---- KaraokePlayer.skip_requested, set by the API thread
    \*      (api_server.py:264, 268) and read by update; absent until then,
    \*      which getattr(self, 'skip_requested', False) reads as False
    skip_requested,
    \* ---- history: the number of calls made so far (bounds the exploration),
    \*      whether a monitor write has failed in this run, the handles
    \*      whose stop or close has raised, whether update has reached the
    \*      lyric lookup since the song was started, and the number of the
    \*      song during which the pending skip request was made, 0 when no
    \*      song was playing (read by the properties only)
    calls

streams == <<stream_mic1, stream_mic2, stream_output, output_channels>>
config == <<input_device_index_1, input_device_index_2, volume_mic1,
            volume_mic2, monitoring_enabled, difficulty, chunk>>
flags == <<running, is_singing_segment, restart_requested, paused>>
levels == <<current_volume_mic1, current_volume_mic2>>
score == <<total_samples, hit_samples, recent_hits>>
worker == <<pc, loc>>
control == <<cpc, ctl>>
timeline == <<lyrics, page_index, current_line_index, current_offset_ms,
              total_duration, music_pos>>
media == <<current_song, lyrics_files, current_lyrics_index,
           current_track_type, music_file>>
player == <<state, player_paused, score_result, acc, timeline, media,
           skip_requested>>
vars == <<streams, config, flags, levels, score, worker, control, player,
          calls>>

----------------------------------------------------------------------------
\* Bounds of the exploration.

\* Size of the sliding accuracy window.  The program sets 43
\* (scorer.py:56); the model scales it down so that eviction is reached.
WindowSize == 2
\* SpecScore: cycles counted toward the score per run, and songs started.
MaxSamples == 3
MaxSongs == 2
\* SpecHit: counted cycles and set_config calls per run after the one made
\* at construction (one song).
HitSamples == 1
HitConfigs == 1
\* SpecStreams: set_config calls per run after the one made at construction,
\* and songs started.
StreamConfigs == 2
StreamSongs == 1
\* SpecConfig: set_config calls per run after the one made at construction.
ConfigCalls == 2
\* SpecStop: set_config calls per run after the one made at construction.
StopConfigs == 1
\* SpecSync: songs started and seeks per run, and the playback time reached
\* in a song of unknown length (milliseconds).
MaxSyncSongs == 1
MaxSeeks == 2
MaxPlayMs == 7000
\* SpecQueue: songs started.
MaxQueueSongs == 2
\* SpecCarry: songs started and cycles counted toward the score per run.
MaxCarrySongs == 2
MaxCarrySamples == 1
\* SpecParse: songs started and the playback time reached (milliseconds).
MaxParseSongs == 1
MaxParseMs == 3000
\* SpecTrack: the playback time reached (milliseconds).
MaxTrackMs == 3000
\* SpecFail: counted cycles and set_config calls per run.
FailSamples == 1
FailConfigs == 1

----------------------------------------------------------------------------
\* Program constants and input domains.

None == -1
NoStream == <<>>
rate == 44100
AltRate == 48000
DefaultChunk == 2048
AltChunk == 1024
Difficulties == {"Facil", "Normal", "Dificil"}
\* The norm of a raw buffer of DefaultChunk frames whose level is l.
NormOf(l) == l * DefaultChunk

Max(a, b) == IF a >= b THEN a ELSE b
Min(a, b) == IF a <= b THEN a ELSE b

----------------------------------------------------------------------------
\* Pure helpers of the audio cycle.

\* np.zeros(self.chunk): a buffer is <<length, norm>>.
Zeros(n) == <<n, 0>>

\* data.astype(np.float32) * volume: the norm scales with the gain.
ApplyGain(data, vol) == <<data[1], data[2] * vol>>

\* np.linalg.norm(float_d) / self.chunk if len(float_d) > 0 else 0
Level(float_d, ch) == IF float_d[1] > 0 THEN float_d[2] \div ch ELSE 0

\* threshold by difficulty: 7.0, 1.5 for "Fácil", 15.0 for "Difícil".
ThresholdOf(d) == IF d = "Facil" THEN 150 ELSE IF d = "Dificil" THEN 1500 ELSE 700

\* max(self.current_volume_mic1, self.current_volume_mic2 * 0.8), in
\* thousandths (the levels are in hundredths).
CombinedVol(v1, v2) == Max(10 * v1, 8 * v2)

\* The comparison with >= in place of >.
IsHitInclusive(combined, thr) == combined >= 10 * thr

\* combined_vol > threshold (combined in thousandths, thr in hundredths).
IsHit(combined, thr) == combined > 10 * thr

\* The percentage without the cap at 100.
ScoreOfUncapped(hits, total) == IF total = 0 THEN 0 ELSE (hits * 100) \div total

\* The percentage rounded to the nearest integer (halves upwards).
ScoreOfRounded(hits, total) ==
    IF total = 0 THEN 0 ELSE Min(100, (hits * 200 + total) \div (2 * total))

\* int(min(100, (hit_samples / total_samples) * 100)), 0 when there is no
\* sample.  hit / total * 100 is a double; its truncation equals the exact
\* floor for every total below 50 (the first difference is 29/50 -> 57).
ScoreOf(hits, total) == IF total = 0 THEN 0 ELSE Min(100, (hits * 100) \div total)

\* The value get_score() would return in the current state.
get_score == ScoreOf(hit_samples, total_samples)

RECURSIVE SumSeq(_)
SumSeq(s) == IF s = <<>> THEN 0 ELSE Head(s) + SumSeq(Tail(s))

\* The candidates with mono tried before stereo.
attemptsMonoFirst == << <<1, rate>>, <<2, rate>>, <<1, AltRate>>, <<2, AltRate>> >>

\* The (channels, rate) candidates of the monitor stream, in order.
attempts == << <<2, rate>>, <<1, rate>>, <<2, AltRate>>, <<1, AltRate>> >>

\* Locals of the worker at the top of a cycle.  A local that is not read
\* again before it is assigned is put back to its value here.
InitLoc == [ret |-> "loop", attempt |-> 0, data1 |-> <<0, 0>>, data2 |-> <<0, 0>>,
            float_d1 |-> <<0, 0>>, float_d2 |-> <<0, 0>>, threshold |-> 0,
            combined_vol |-> 0, hit |-> 0, reg |-> 0]

----------------------------------------------------------------------------
\* The audio worker: Scorer._process_audio and the start_streams and
\* stop_streams calls it makes.  loc.ret is where the call in progress
\* returns to.

\* Return from start_streams or stop_streams.  After the stop_streams of a
\* restart (line 248) comes its start_streams (line 249).
WReturn == IF loc.ret = "r_start"
           THEN /\ pc' = "ss_mic1"
                /\ loc' = [loc EXCEPT !.ret = "r_clear"]
           ELSE /\ pc' = loc.ret
                /\ loc' = [loc EXCEPT !.ret = "loop", !.attempt = 0]

\* End of one pass of the while loop: back to its test, locals dead.
WEndCycle == pc' = "loop" /\ loc' = InitLoc

\* line 235: start_streams() before the loop.
W_start ==
    /\ pc = "start"
    /\ pc' = "ss_mic1"
    /\ loc' = [loc EXCEPT !.ret = "loop"]
    /\ UNCHANGED <<streams, config, flags, levels, score, control, player, calls>>

\* lines 132-140: open mic 1; a failure leaves start_streams (line 196).
W_ss_mic1(outcomes) ==
    /\ pc = "ss_mic1"
    /\ IF input_device_index_1 # None
       THEN \E ok \in outcomes :
              IF ok
              THEN /\ stream_mic1' = <<input_device_index_1, chunk>>
                   /\ pc' = "ss_mic2"
                   /\ loc' = loc
              ELSE /\ stream_mic1' = stream_mic1
                   /\ WReturn
       ELSE /\ stream_mic1' = stream_mic1
            /\ pc' = "ss_mic2"
            /\ loc' = loc
    /\ UNCHANGED <<stream_mic2, stream_output, output_channels, config, flags,
                   levels, score, control, player, calls>>

\* lines 143-151: open mic 2 when configured and different from mic 1.
W_ss_mic2(outcomes) ==
    /\ pc = "ss_mic2"
    /\ IF input_device_index_2 # None /\ input_device_index_2 # input_device_index_1
       THEN \E ok \in outcomes :
              IF ok
              THEN /\ stream_mic2' = <<input_device_index_2, chunk>>
                   /\ pc' = "ss_mon"
                   /\ loc' = loc
              ELSE /\ stream_mic2' = stream_mic2
                   /\ WReturn
       ELSE /\ stream_mic2' = stream_mic2
            /\ pc' = "ss_mon"
            /\ loc' = loc
    /\ UNCHANGED <<stream_mic1, stream_output, output_channels, config, flags,
                   levels, score, control, player, calls>>

\* lines 154-156: monitoring requested: forget the handle, default stereo.
W_ss_mon ==
    /\ pc = "ss_mon"
    /\ IF monitoring_enabled
       THEN /\ stream_output' = NoStream
            /\ output_channels' = 2
            /\ pc' = "ss_try"
            /\ loc' = [loc EXCEPT !.attempt = 1]
       ELSE /\ UNCHANGED <<stream_output, output_channels>>
            /\ WReturn
    /\ UNCHANGED <<stream_mic1, stream_mic2, config, flags, levels, score,
                   control, player, calls>>

\* lines 175-189: one candidate of the attempts list.
W_ss_try(outcomes) ==
    /\ pc = "ss_try"
    /\ \E ok \in outcomes :
         IF ok
         THEN /\ stream_output' = <<attempts[loc.attempt][1], attempts[loc.attempt][2], chunk>>
              /\ output_channels' = attempts[loc.attempt][1]
              /\ pc' = "ss_chk"
              /\ loc' = loc
         ELSE /\ UNCHANGED <<stream_output, output_channels>>
              /\ IF loc.attempt < Len(attempts)
                 THEN pc' = "ss_try" /\ loc' = [loc EXCEPT !.attempt = @ + 1]
                 ELSE pc' = "ss_chk" /\ loc' = loc
    /\ UNCHANGED <<stream_mic1, stream_mic2, config, flags, levels, score,
                   control, player, calls>>

\* lines 191-194: no candidate opened: monitoring is switched off.
W_ss_chk ==
    /\ pc = "ss_chk"
    /\ monitoring_enabled' = IF stream_output = NoStream THEN FALSE ELSE monitoring_enabled
    /\ WReturn
    /\ UNCHANGED <<streams, input_device_index_1, input_device_index_2,
                   volume_mic1, volume_mic2, difficulty, chunk, flags, levels,
                   score, control, player, calls>>

\* The handle after a close whose assignment stands inside the try block.
ClosedHandleInsideTry(h, ok) == IF ok THEN NoStream ELSE h

\* lines 203-208 (210-215, 217-222): stop_stream() and close() inside
\* try / except: pass, then the handle is set to None whether or not one of
\* them raised.
ClosedHandle(h, ok) == NoStream

\* The history after the close of the handle h: a close is attempted only on
\* a handle that is not None (lines 203, 210, 217).
NoteClose(name, h, ok) ==
    IF h # NoStream /\ ~ok
    THEN [calls EXCEPT !.close_failed = @ \cup {name}]
    ELSE calls

\* lines 203-208 of stop_streams, run by the worker.
W_st_mic1(closes) ==
    /\ pc = "st_mic1"
    /\ \E ok \in closes :
         /\ stream_mic1' = ClosedHandle(stream_mic1, ok)
         /\ calls' = NoteClose("mic1", stream_mic1, ok)
    /\ pc' = "st_mic2"
    /\ UNCHANGED <<stream_mic2, stream_output, output_channels, loc, config,
                   flags, levels, score, control, player>>

\* lines 210-215.
W_st_mic2(closes) ==
    /\ pc = "st_mic2"
    /\ \E ok \in closes :
         /\ stream_mic2' = ClosedHandle(stream_mic2, ok)
         /\ calls' = NoteClose("mic2", stream_mic2, ok)
    /\ pc' = "st_out"
    /\ UNCHANGED <<stream_mic1, stream_output, output_channels, loc, config,
                   flags, levels, score, control, player>>

\* lines 217-222.
W_st_out(closes) ==
    /\ pc = "st_out"
    /\ \E ok \in closes :
         /\ stream_output' = ClosedHandle(stream_output, ok)
         /\ calls' = NoteClose("out", stream_output, ok)
    /\ WReturn
    /\ UNCHANGED <<stream_mic1, stream_mic2, output_channels, config, flags,
                   levels, score, control, player>>

\* The loop test without the stop_streams() that follows the loop.
W_loopNoCleanup ==
    /\ pc = "loop"
    /\ IF running
       THEN pc' = "chk_pause" /\ loc' = loc
       ELSE pc' = "done" /\ loc' = loc
    /\ UNCHANGED <<streams, config, flags, levels, score, control, player, calls>>

\* line 237: while self.running; line 334-335 after the loop.
W_loop ==
    /\ pc = "loop"
    /\ IF running
       THEN pc' = "chk_pause" /\ loc' = loc
       ELSE pc' = "st_mic1" /\ loc' = [loc EXCEPT !.ret = "done"]
    /\ UNCHANGED <<streams, config, flags, levels, score, control, player, calls>>

\* line 239: if self.paused.
W_chk_pause ==
    /\ pc = "chk_pause"
    /\ pc' = IF paused THEN "p_chk" ELSE "chk_restart"
    /\ UNCHANGED <<loc, streams, config, flags, levels, score, control, player, calls>>

\* lines 240-241: close only if mic 1 or the monitor is open.
W_p_chk ==
    /\ pc = "p_chk"
    /\ IF stream_mic1 # NoStream \/ stream_output # NoStream
       THEN pc' = "st_mic1" /\ loc' = [loc EXCEPT !.ret = "p_sleep"]
       ELSE pc' = "p_sleep" /\ loc' = loc
    /\ UNCHANGED <<streams, config, flags, levels, score, control, player, calls>>

\* lines 242-243: sleep, continue.
W_p_sleep ==
    /\ pc = "p_sleep"
    /\ pc' = "loop"
    /\ UNCHANGED <<loc, streams, config, flags, levels, score, control, player, calls>>

\* lines 246-248: a requested restart starts with stop_streams.
W_chk_restart ==
    /\ pc = "chk_restart"
    /\ IF restart_requested
       THEN pc' = "st_mic1" /\ loc' = [loc EXCEPT !.ret = "r_start"]
       ELSE pc' = "chk_should" /\ loc' = loc
    /\ UNCHANGED <<streams, config, flags, levels, score, control, player, calls>>

\* line 250: the restart is done.
W_r_clear ==
    /\ pc = "r_clear"
    /\ restart_requested' = FALSE
    /\ pc' = "chk_should"
    /\ UNCHANGED <<loc, streams, config, running, is_singing_segment, paused,
                   levels, score, control, player, calls>>

\* lines 254-257: mic 1 configured but closed: open the streams.
W_chk_should ==
    /\ pc = "chk_should"
    /\ IF input_device_index_1 # None /\ stream_mic1 = NoStream /\ ~restart_requested
       THEN pc' = "ss_mic1" /\ loc' = [loc EXCEPT !.ret = "alloc1"]
       ELSE pc' = "alloc1" /\ loc' = loc
    /\ UNCHANGED <<streams, config, flags, levels, score, control, player, calls>>

\* line 259.
W_alloc1 ==
    /\ pc = "alloc1"
    /\ loc' = [loc EXCEPT !.data1 = Zeros(chunk)]
    /\ pc' = "alloc2"
    /\ UNCHANGED <<streams, config, flags, levels, score, control, player, calls>>

\* line 260.
W_alloc2 ==
    /\ pc = "alloc2"
    /\ loc' = [loc EXCEPT !.data2 = Zeros(chunk)]
    /\ pc' = "read1"
    /\ UNCHANGED <<streams, config, flags, levels, score, control, player, calls>>

\* lines 263-269: read mic 1; an error keeps the zero buffer.
W_read1(norms) ==
    /\ pc = "read1"
    /\ IF stream_mic1 # NoStream
       THEN \/ \E n \in norms : loc' = [loc EXCEPT !.data1 = <<chunk, n>>]
            \/ loc' = loc
       ELSE loc' = loc
    /\ pc' = "read2"
    /\ UNCHANGED <<streams, config, flags, levels, score, control, player, calls>>

\* lines 272-277: read mic 2.
W_read2(norms) ==
    /\ pc = "read2"
    /\ IF stream_mic2 # NoStream
       THEN \/ \E n \in norms : loc' = [loc EXCEPT !.data2 = <<chunk, n>>]
            \/ loc' = loc
       ELSE loc' = loc
    /\ pc' = "gain1"
    /\ UNCHANGED <<streams, config, flags, levels, score, control, player, calls>>

\* line 281.
W_gain1 ==
    /\ pc = "gain1"
    /\ loc' = [loc EXCEPT !.float_d1 = ApplyGain(loc.data1, volume_mic1), !.data1 = <<0, 0>>]
    /\ pc' = "gain2"
    /\ UNCHANGED <<streams, config, flags, levels, score, control, player, calls>>

\* line 282.
W_gain2 ==
    /\ pc = "gain2"
    /\ loc' = [loc EXCEPT !.float_d2 = ApplyGain(loc.data2, volume_mic2), !.data2 = <<0, 0>>]
    /\ pc' = "lvl1"
    /\ UNCHANGED <<streams, config, flags, levels, score, control, player, calls>>

\* line 285.
W_lvl1 ==
    /\ pc = "lvl1"
    /\ current_volume_mic1' = Level(loc.float_d1, chunk)
    /\ loc' = [loc EXCEPT !.float_d1 = <<@[1], 0>>]
    /\ pc' = "lvl2"
    /\ UNCHANGED <<current_volume_mic2, streams, config, flags, score,
                   control, player, calls>>

\* line 286.
W_lvl2 ==
    /\ pc = "lvl2"
    /\ current_volume_mic2' = Level(loc.float_d2, chunk)
    /\ loc' = [loc EXCEPT !.float_d2 = <<@[1], 0>>]
    /\ pc' = "mix"
    /\ UNCHANGED <<current_volume_mic1, streams, config, flags, score,
                   control, player, calls>>

\* lines 289-291: adding buffers of different lengths raises in the worker.
W_mix ==
    /\ pc = "mix"
    /\ pc' = IF loc.float_d1[1] = loc.float_d2[1] THEN "mon" ELSE "crashed"
    /\ loc' = [loc EXCEPT !.float_d1 = <<0, 0>>, !.float_d2 = <<0, 0>>]
    /\ UNCHANGED <<streams, config, flags, levels, score, control, player, calls>>

\* lines 294-303: write the mix to the monitor stream; the write may fail.
W_mon(outcomes) ==
    /\ pc = "mon"
    /\ IF stream_output # NoStream /\ monitoring_enabled
       THEN \E ok \in outcomes : pc' = IF ok THEN "thr" ELSE "mon_fail"
       ELSE pc' = "thr"
    /\ UNCHANGED <<loc, streams, config, flags, levels, score, control, player, calls>>

\* lines 304-307: a failed write disables monitoring.
W_mon_fail ==
    /\ pc = "mon_fail"
    /\ monitoring_enabled' = FALSE
    /\ calls' = [calls EXCEPT !.write_failed = TRUE]
    /\ pc' = "thr"
    /\ UNCHANGED <<loc, streams, input_device_index_1, input_device_index_2,
                   volume_mic1, volume_mic2, difficulty, chunk, flags, levels,
                   score, control, player>>

\* lines 313-320: threshold of the difficulty, combined volume.
W_thr ==
    /\ pc = "thr"
    /\ loc' = [loc EXCEPT !.threshold = ThresholdOf(difficulty),
                          !.combined_vol = CombinedVol(current_volume_mic1, current_volume_mic2)]
    /\ pc' = "seg"
    /\ UNCHANGED <<streams, config, flags, levels, score, control, player, calls>>

\* line 322: if self.is_singing_segment.
W_seg(maxSamples) ==
    /\ pc = "seg"
    /\ IF is_singing_segment
       THEN /\ calls.samples < maxSamples
            /\ calls' = [calls EXCEPT !.samples = @ + 1]
            /\ pc' = "tot_r"
            /\ loc' = loc
       ELSE WEndCycle /\ calls' = calls
    /\ UNCHANGED <<streams, config, flags, levels, score, control, player>>

\* line 323, the read of self.total_samples += 1.
W_tot_r ==
    /\ pc = "tot_r"
    /\ loc' = [loc EXCEPT !.reg = total_samples]
    /\ pc' = "tot_w"
    /\ UNCHANGED <<streams, config, flags, levels, score, control, player, calls>>

\* lines 323-325: the write of total_samples, hit = 0, the comparison.
W_tot_w ==
    /\ pc = "tot_w"
    /\ total_samples' = loc.reg + 1
    /\ loc' = [loc EXCEPT !.hit = 0, !.reg = 0]
    /\ pc' = IF IsHit(loc.combined_vol, loc.threshold) THEN "hit_r" ELSE "app"
    /\ UNCHANGED <<hit_samples, recent_hits, streams, config, flags,
                   levels, control, player, calls>>

\* line 326, the read of self.hit_samples += 1.
W_hit_r ==
    /\ pc = "hit_r"
    /\ loc' = [loc EXCEPT !.reg = hit_samples]
    /\ pc' = "hit_w"
    /\ UNCHANGED <<streams, config, flags, levels, score, control, player, calls>>

\* lines 326-327: the write of hit_samples, hit = 1.
W_hit_w ==
    /\ pc = "hit_w"
    /\ hit_samples' = loc.reg + 1
    /\ loc' = [loc EXCEPT !.hit = 1, !.reg = 0]
    /\ pc' = "app"
    /\ UNCHANGED <<total_samples, recent_hits, streams, config, flags,
                   levels, control, player, calls>>

\* line 330.
W_app ==
    /\ pc = "app"
    /\ recent_hits' = Append(recent_hits, loc.hit)
    /\ pc' = "len"
    /\ UNCHANGED <<loc, total_samples, hit_samples, streams, config, flags,
                   levels, control, player, calls>>

\* line 331.
W_len ==
    /\ pc = "len"
    /\ IF Len(recent_hits) > WindowSize
       THEN pc' = "pop" /\ loc' = loc
       ELSE WEndCycle
    /\ UNCHANGED <<streams, config, flags, levels, score, control, player, calls>>

\* line 332: pop(0); on an empty list it raises in the worker.
W_pop ==
    /\ pc = "pop"
    /\ IF recent_hits = <<>>
       THEN /\ recent_hits' = recent_hits
            /\ pc' = "crashed"
            /\ loc' = loc
       ELSE /\ recent_hits' = Tail(recent_hits)
            /\ WEndCycle
    /\ UNCHANGED <<total_samples, hit_samples, streams, config, flags,
                   levels, control, player, calls>>

\* The worker's steps, grouped.  A specification leaves out the groups its
\* environment never enables: the monitor steps where monitoring is never
\* requested, the end of a restart where none is requested, the eviction
\* where fewer cycles are counted than the window holds.
WorkerLoop(outcomes, closes) ==
    \/ W_start \/ W_ss_mic1(outcomes) \/ W_ss_mic2(outcomes) \/ W_ss_mon
    \/ W_st_mic1(closes) \/ W_st_mic2(closes) \/ W_st_out(closes)
    \/ W_loop \/ W_chk_pause \/ W_p_chk \/ W_p_sleep
    \/ W_chk_restart \/ W_chk_should

WorkerMonitor(outcomes) == W_ss_try(outcomes) \/ W_ss_chk

WorkerCycle(norms1, norms2, outcomes, maxSamples) ==
    \/ W_alloc1 \/ W_alloc2 \/ W_read1(norms1) \/ W_read2(norms2)
    \/ W_gain1 \/ W_gain2 \/ W_lvl1 \/ W_lvl2 \/ W_mix \/ W_mon(outcomes)
    \/ W_thr \/ W_seg(maxSamples)

WorkerScore ==
    \/ W_tot_r \/ W_tot_w \/ W_hit_r \/ W_hit_w \/ W_app \/ W_len

----------------------------------------------------------------------------
\* The control thread: the calls of the player's main loop into the Scorer.

\* The comparison without the chunk size.
NeedRestartDevices(a) ==
    \/ input_device_index_1 # a.d1
    \/ input_device_index_2 # a.d2
    \/ monitoring_enabled # a.mon

\* lines 82-87 of set_config: does a stream parameter differ?
NeedRestart(a) ==
    \/ input_device_index_1 # a.d1
    \/ input_device_index_2 # a.d2
    \/ monitoring_enabled # a.mon
    \/ chunk # a.ch

\* KaraokePlayer.apply_audio_config, any time after construction: the call
\* of set_config with the player's cfg_* values as arguments.
C_set_config(a, maxConfigs) ==
    /\ cpc = "idle"
    /\ calls.configs < maxConfigs
    /\ calls' = [calls EXCEPT !.configs = @ + 1]
    /\ ctl' = [ctl EXCEPT !.args = a]
    /\ cpc' = "sc_cmp"
    /\ UNCHANGED <<streams, config, flags, levels, score, worker, player>>

\* lines 82-87.
C_sc_cmp ==
    /\ cpc = "sc_cmp"
    /\ ctl' = [ctl EXCEPT !.need_restart = NeedRestart(ctl.args)]
    /\ cpc' = "sc_1"
    /\ UNCHANGED <<streams, config, flags, levels, score, worker, player, calls>>

\* line 89.
C_sc_1 ==
    /\ cpc = "sc_1"
    /\ input_device_index_1' = ctl.args.d1
    /\ cpc' = "sc_2"
    /\ UNCHANGED <<ctl, streams, input_device_index_2, volume_mic1, volume_mic2,
                   monitoring_enabled, difficulty, chunk, flags, levels, score,
                   worker, player, calls>>

\* line 90.
C_sc_2 ==
    /\ cpc = "sc_2"
    /\ input_device_index_2' = ctl.args.d2
    /\ cpc' = "sc_3"
    /\ UNCHANGED <<ctl, streams, input_device_index_1, volume_mic1, volume_mic2,
                   monitoring_enabled, difficulty, chunk, flags, levels, score,
                   worker, player, calls>>

\* line 91.
C_sc_3 ==
    /\ cpc = "sc_3"
    /\ monitoring_enabled' = ctl.args.mon
    /\ cpc' = "sc_4"
    /\ UNCHANGED <<ctl, streams, input_device_index_1, input_device_index_2,
                   volume_mic1, volume_mic2, difficulty, chunk, flags, levels,
                   score, worker, player, calls>>

\* line 92.
C_sc_4 ==
    /\ cpc = "sc_4"
    /\ chunk' = ctl.args.ch
    /\ cpc' = "sc_5"
    /\ UNCHANGED <<ctl, streams, input_device_index_1, input_device_index_2,
                   volume_mic1, volume_mic2, monitoring_enabled, difficulty,
                   flags, levels, score, worker, player, calls>>

\* line 93.
C_sc_5 ==
    /\ cpc = "sc_5"
    /\ difficulty' = ctl.args.diff
    /\ cpc' = "sc_6"
    /\ UNCHANGED <<ctl, streams, input_device_index_1, input_device_index_2,
                   volume_mic1, volume_mic2, monitoring_enabled, chunk, flags,
                   levels, score, worker, player, calls>>

\* line 94.
C_sc_6 ==
    /\ cpc = "sc_6"
    /\ volume_mic1' = ctl.args.v1
    /\ cpc' = "sc_7"
    /\ UNCHANGED <<ctl, streams, input_device_index_1, input_device_index_2,
                   volume_mic2, monitoring_enabled, difficulty, chunk, flags,
                   levels, score, worker, player, calls>>

\* line 95.
C_sc_7 ==
    /\ cpc = "sc_7"
    /\ volume_mic2' = ctl.args.v2
    /\ cpc' = "sc_flag"
    /\ UNCHANGED <<ctl, streams, input_device_index_1, input_device_index_2,
                   volume_mic1, monitoring_enabled, difficulty, chunk, flags,
                   levels, score, worker, player, calls>>

\* lines 97-101: signal the restart to the worker.  The call made in the
\* player's constructor is followed by Scorer.start (karaoke_player.py:247-248).
C_sc_flag ==
    /\ cpc = "sc_flag"
    /\ restart_requested' = IF ctl.need_restart /\ running THEN TRUE ELSE restart_requested
    /\ cpc' = IF pc = "nothread" THEN "start" ELSE "idle"
    /\ ctl' = [ctl EXCEPT !.need_restart = FALSE]
    /\ UNCHANGED <<streams, config, running, is_singing_segment, paused, levels,
                   score, worker, player, calls>>

\* Scorer.start, lines 103-107.
C_start ==
    /\ cpc = "start"
    /\ running' = TRUE
    /\ pc' = "start"
    /\ cpc' = "idle"
    /\ UNCHANGED <<ctl, loc, streams, config, is_singing_segment,
                   restart_requested, paused, levels, score, player, calls>>

\* ---- parse_lrc (karaoke_player.py:392-427).
\* A lyric file is [type, missing, readable, rows]: `readable` says that the
\* JSON text loads (lines 399-400), or that the LRC bytes decode as UTF-8
\* (line 418).  A JSON row is [start, end, text, words], times in tenths of a
\* second and `end` None when the key is absent; an LRC row is
\* [kind, mm, cs, text], cs the seconds in hundredths.  A text is a sequence
\* of tokens, " " the blank.

\* JSON seconds (here in tenths) times 1000, lines 403-407.
SecToMs(ds) == ds * 100

\* A line record of the result: `time`, `end_time` (None when the key is not
\* set, as in the LRC branch), the text and the words.
Line(t, e, txt, ws) == [time |-> t, end_time |-> e, text |-> txt, words |-> ws]

\* lines 402-408 read l['end'] and w['end'] without a default: a row or a
\* word without the key raises KeyError inside the try.
JsonKeysPresent(rows) ==
    \A i \in 1..Len(rows) :
        /\ rows[i].end # None
        /\ \A j \in 1..Len(rows[i].words) : rows[i].words[j].end # None

\* The JSON branch with the rows in reverse order.
JsonLinesReversed(rows) ==
    [i \in 1..Len(rows) |->
        LET l == rows[Len(rows) + 1 - i]
        IN Line(SecToMs(l.start), SecToMs(l.end), l.text,
                [j \in 1..Len(l.words) |->
                    [start_ms |-> SecToMs(l.words[j].start),
                     end_ms |-> SecToMs(l.words[j].end)]])]

\* lines 401-409: the loop of the JSON branch.
JsonLines(rows) ==
    [i \in 1..Len(rows) |->
        LET l == rows[i]
        IN Line(SecToMs(l.start), SecToMs(l.end), l.text,
                [j \in 1..Len(l.words) |->
                    [start_ms |-> SecToMs(l.words[j].start),
                     end_ms |-> SecToMs(l.words[j].end)]])]

RECURSIVE Strip(_)
\* str.strip(), line 424: the blanks at both ends are dropped.
Strip(txt) ==
    IF txt # <<>> /\ Head(txt) = " " THEN Strip(Tail(txt))
    ELSE IF txt # <<>> /\ txt[Len(txt)] = " "
         THEN Strip(SubSeq(txt, 1, Len(txt) - 1))
         ELSE txt

\* line 420: re.search(r'\[(\d+):(\d+\.\d+)\](.*)', line) finds the tag at
\* the start of the row ("tag") or after other text ("prefixed"), and
\* nothing in a tag without a fraction ("no_fraction", [01:02]), in a
\* metadata tag ("meta", [ar:x]) or in plain text ("plain").
LrcMatches(row) == row.kind \in {"tag", "prefixed"}

\* The LRC time with the minutes taken for seconds.
LrcTimeMinutesDropped(mm, cs) == (mm * 100 + cs) * 10

\* line 425: (minutes * 60 + seconds) * 1000.
LrcTime(mm, cs) == (mm * 60 * 100 + cs) * 10

\* lines 419-426: the loop of the LRC branch.
LrcLines(rows) ==
    LET m == SelectSeq(rows, LrcMatches)
    IN [i \in 1..Len(m) |->
           Line(LrcTime(m[i].mm, m[i].cs), None, Strip(m[i].text), <<>>)]

\* parse_lrc: [raised, lines], `raised` when an exception leaves the
\* function.  The JSON branch returns [] for whatever goes wrong inside its
\* try (396-412); the LRC branch returns [] for a missing file (415-416) and
\* reads the file outside any try (418).
parse_lrc(file) ==
    IF file.type \in {"v1", "v2"}
    THEN IF file.missing \/ ~file.readable \/ ~JsonKeysPresent(file.rows)
         THEN [raised |-> FALSE, lines |-> <<>>]
         ELSE [raised |-> FALSE, lines |-> JsonLines(file.rows)]
    ELSE IF file.missing
         THEN [raised |-> FALSE, lines |-> <<>>]
         ELSE IF ~file.readable
              THEN [raised |-> TRUE, lines |-> <<>>]
              ELSE [raised |-> FALSE, lines |-> LrcLines(file.rows)]

\* Constructors of the inputs.
JsonRow(s, e, ws) == [start |-> s, end |-> e, text |-> <<"la">>, words |-> ws]
LrcRow(k, mm, cs, txt) == [kind |-> k, mm |-> mm, cs |-> cs, text |-> txt]
LyricFile(ty, rows) ==
    [type |-> ty, missing |-> FALSE, readable |-> TRUE, rows |-> rows]

\* A song of the catalogue: its lyric files in the order start_song lists
\* them (v1, v2, lrc; lines 443-449), its length in ms (0 when it cannot be
\* read, 460-465) and whether original_audio_path names a file that exists.
Song(code, files, duration, original) ==
    [code |-> code, files |-> files, duration |-> duration,
     original |-> original]

\* current_song before the first song (None, line 210).
NoSong == Song(None, <<>>, 0, FALSE)

\* A song with one sung line and unknown length, for the environments that
\* do not follow the playback position.
OneLineSongs ==
    {Song(1, <<LyricFile("lrc", <<LrcRow("tag", 0, 0, <<"la">>)>>)>>, 0, FALSE)}

\* start_song without the three assignments update makes after it returns
\* (lines 869-871, 879-881).
C_start_songNoReset(maxSongs, songs) ==
    /\ cpc = "idle"
    /\ state \in {"MENU", "SCORE"}
    /\ calls.songs < maxSongs
    /\ calls' = [calls EXCEPT !.songs = @ + 1, !.ticked = FALSE]
    /\ skip_requested' = IF state = "SCORE" THEN FALSE ELSE skip_requested
    /\ \E s \in songs :
         LET parsed == IF s.files = <<>>
                       THEN [raised |-> FALSE, lines |-> <<>>]
                       ELSE parse_lrc(s.files[1])
         IN /\ current_song' = s
            /\ lyrics_files' = s.files
            /\ current_lyrics_index' = 0
            /\ IF parsed.raised
               THEN /\ running' = FALSE
                    /\ cpc' = "join"
                    /\ UNCHANGED <<lyrics, total_duration, music_pos,
                                   page_index, current_offset_ms,
                                   current_track_type, music_file, state,
                                   paused>>
               ELSE /\ lyrics' = parsed.lines
                    /\ total_duration' = s.duration
                    /\ music_pos' = 0
                    /\ music_file' = "instrumental"
                    /\ UNCHANGED <<page_index, current_track_type,
                                   current_offset_ms>>
                    /\ state' = "PLAYING"
                    /\ paused' = FALSE
                    /\ cpc' = "rs_1"
                    /\ UNCHANGED running
    /\ UNCHANGED <<ctl, streams, config, is_singing_segment,
                   restart_requested, levels, score, worker, player_paused,
                   score_result, acc, current_line_index>>

\* KaraokePlayer.start_song called by update from the menu or the score
\* screen (lines 864-881): the lyric files are listed and the first one
\* parsed (438-457), the length is read (460-465), the music plays from 0
\* (467-469), state PLAYING and set_paused(False) (474-475); back in update,
\* page_index, current_track_type and current_offset_ms are reset.  An
\* exception of parse_lrc leaves start_song and update, and run() shuts the
\* engine down (1540-1547: scorer.shutdown(), running = False at line 111).
\* On the score screen a pending skip request is cleared first (861-863);
\* the menu branch does not look at it.
C_start_song(maxSongs, songs) ==
    /\ cpc = "idle"
    /\ state \in {"MENU", "SCORE"}
    /\ calls.songs < maxSongs
    /\ calls' = [calls EXCEPT !.songs = @ + 1, !.ticked = FALSE]
    /\ skip_requested' = IF state = "SCORE" THEN FALSE ELSE skip_requested
    /\ \E s \in songs :
         LET parsed == IF s.files = <<>>
                       THEN [raised |-> FALSE, lines |-> <<>>]
                       ELSE parse_lrc(s.files[1])
         IN /\ current_song' = s
            /\ lyrics_files' = s.files
            /\ current_lyrics_index' = 0
            /\ IF parsed.raised
               THEN /\ running' = FALSE
                    /\ cpc' = "join"
                    /\ UNCHANGED <<lyrics, total_duration, music_pos,
                                   page_index, current_offset_ms,
                                   current_track_type, music_file, state,
                                   paused>>
               ELSE /\ lyrics' = parsed.lines
                    /\ total_duration' = s.duration
                    /\ music_pos' = 0
                    /\ music_file' = "instrumental"
                    /\ page_index' = 0
                    /\ current_track_type' = "instrumental"
                    /\ current_offset_ms' = 0
                    /\ state' = "PLAYING"
                    /\ paused' = FALSE
                    /\ cpc' = "rs_1"
                    /\ UNCHANGED running
    /\ UNCHANGED <<ctl, streams, config, is_singing_segment,
                   restart_requested, levels, score, worker, player_paused,
                   score_result, acc, current_line_index>>

\* Scorer.reset, line 349.
C_rs_1 ==
    /\ cpc = "rs_1"
    /\ total_samples' = 0
    /\ cpc' = "rs_2"
    /\ UNCHANGED <<ctl, hit_samples, recent_hits, streams, config, flags, levels,
                   worker, player, calls>>

\* line 350.
C_rs_2 ==
    /\ cpc = "rs_2"
    /\ hit_samples' = 0
    /\ cpc' = "rs_3"
    /\ UNCHANGED <<ctl, total_samples, recent_hits, streams, config, flags,
                   levels, worker, player, calls>>

\* line 351.
C_rs_3 ==
    /\ cpc = "rs_3"
    /\ recent_hits' = <<>>
    /\ cpc' = "idle"
    /\ UNCHANGED <<ctl, total_samples, hit_samples, streams, config, flags,
                   levels, worker, player, calls>>

\* KaraokePlayer.update while PLAYING and not paused, lines 846-854:
\* set_singing_segment with what the lyric lookup found.
C_tick(in_segment) ==
    /\ cpc = "idle"
    /\ state = "PLAYING"
    /\ ~player_paused
    /\ is_singing_segment' = in_segment
    /\ UNCHANGED <<control, streams, config, running, restart_requested, paused,
                   levels, score, worker, player, calls>>

\* KaraokePlayer.toggle_pause, lines 570-580.
C_toggle_pause ==
    /\ cpc = "idle"
    /\ state = "PLAYING"
    /\ player_paused' = ~player_paused
    /\ paused' = ~player_paused
    /\ UNCHANGED <<control, streams, config, running, is_singing_segment,
                   restart_requested, levels, score, worker, state, score_result,
                   acc, skip_requested, timeline, media, calls>>

\* KaraokePlayer.finish_song called by update when the music has ended
\* (lines 820-823), lines 884-886: set_paused(True), sleep.
C_finish_song ==
    /\ cpc = "idle"
    /\ state = "PLAYING"
    /\ ~skip_requested
    /\ paused' = TRUE
    /\ cpc' = "st_mic1"
    /\ ctl' = [ctl EXCEPT !.ret = "gs_1"]
    /\ UNCHANGED <<streams, config, running, is_singing_segment,
                   restart_requested, levels, score, worker, player, calls>>

\* KaraokePlayer.update while PLAYING with a skip request pending, lines
\* 812-815: the request is cleared and finish_song is called (884-886).
C_update_skip ==
    /\ cpc = "idle"
    /\ state = "PLAYING"
    /\ skip_requested
    /\ skip_requested' = FALSE
    /\ paused' = TRUE
    /\ cpc' = "st_mic1"
    /\ ctl' = [ctl EXCEPT !.ret = "gs_1"]
    /\ UNCHANGED <<streams, config, running, is_singing_segment,
                   restart_requested, levels, score, worker, state,
                   player_paused, score_result, acc, timeline, media, calls>>

\* The score screen is left for the menu: by update with an empty queue,
\* after 10 s or at once when a skip request is pending, which it clears
\* (lines 857-873); or by the Return key, which leaves the request alone
\* (lines 688-690).
C_score_to_menu ==
    /\ cpc = "idle"
    /\ state = "SCORE"
    /\ state' = "MENU"
    /\ \E by_key \in BOOLEAN :
         skip_requested' = IF by_key THEN skip_requested ELSE FALSE
    /\ UNCHANGED <<control, streams, config, flags, levels, score, worker,
                   player_paused, score_result, acc, timeline, media, calls>>

\* The C key in the menu and C or Escape in the configuration screen
\* (lines 659-660, 692-694).
C_key_config ==
    /\ cpc = "idle"
    /\ state \in {"MENU", "CONFIG"}
    /\ state' = IF state = "MENU" THEN "CONFIG" ELSE "MENU"
    /\ UNCHANGED <<control, streams, config, flags, levels, score, worker,
                   player_paused, score_result, acc, timeline, media,
                   skip_requested, calls>>

\* KaraokeAPI.player_control('next') and ('stop'), api_server.py:263-271, on
\* the API server's thread, in any state of the player: skip_requested is
\* set; 'stop' also empties the queue and stops the music.
A_player_control(actions) ==
    \E action \in actions :
        /\ skip_requested' = TRUE
        /\ music_pos' = IF action = "stop" THEN -1 ELSE music_pos
        /\ calls' = [calls EXCEPT
                        !.skip_song = IF state = "PLAYING" THEN calls.songs ELSE 0]
        /\ UNCHANGED <<control, streams, config, flags, levels, score, worker,
                       state, player_paused, score_result, acc, lyrics,
                       page_index, current_line_index, current_offset_ms,
                       total_duration, media>>

\* stop_streams run by the control thread, lines 203-208.
C_st_mic1(closes) ==
    /\ cpc = "st_mic1"
    /\ \E ok \in closes :
         /\ stream_mic1' = ClosedHandle(stream_mic1, ok)
         /\ calls' = NoteClose("mic1", stream_mic1, ok)
    /\ cpc' = "st_mic2"
    /\ UNCHANGED <<ctl, stream_mic2, stream_output, output_channels, config,
                   flags, levels, score, worker, player>>

\* lines 210-215.
C_st_mic2(closes) ==
    /\ cpc = "st_mic2"
    /\ \E ok \in closes :
         /\ stream_mic2' = ClosedHandle(stream_mic2, ok)
         /\ calls' = NoteClose("mic2", stream_mic2, ok)
    /\ cpc' = "st_out"
    /\ UNCHANGED <<ctl, stream_mic1, stream_output, output_channels, config,
                   flags, levels, score, worker, player>>

\* lines 217-222.
C_st_out(closes) ==
    /\ cpc = "st_out"
    /\ \E ok \in closes :
         /\ stream_output' = ClosedHandle(stream_output, ok)
         /\ calls' = NoteClose("out", stream_output, ok)
    /\ cpc' = ctl.ret
    /\ ctl' = [ctl EXCEPT !.ret = "idle"]
    /\ UNCHANGED <<stream_mic1, stream_mic2, output_channels, config, flags,
                   levels, score, worker, player>>

\* get_score called by finish_song, line 339: the test of total_samples.
C_gs_1 ==
    /\ cpc = "gs_1"
    /\ IF total_samples = 0
       THEN /\ score_result' = 0
            /\ state' = "SCORE"
            /\ player_paused' = FALSE
            /\ cpc' = "idle"
       ELSE /\ UNCHANGED <<score_result, state, player_paused>>
            /\ cpc' = "gs_2"
    /\ UNCHANGED <<acc, skip_requested, timeline, media, ctl, streams, config, flags, levels, score,
                   worker, calls>>

\* line 340 of get_score: the read of hit_samples.
C_gs_2 ==
    /\ cpc = "gs_2"
    /\ ctl' = [ctl EXCEPT !.reg = hit_samples]
    /\ cpc' = "gs_3"
    /\ UNCHANGED <<streams, config, flags, levels, score, worker, player, calls>>

\* lines 340-341: the read of total_samples and the result; then
\* finish_song lines 888-891.
C_gs_3 ==
    /\ cpc = "gs_3"
    /\ score_result' = ScoreOf(ctl.reg, total_samples)
    /\ state' = "SCORE"
    /\ player_paused' = FALSE
    /\ ctl' = [ctl EXCEPT !.reg = 0]
    /\ cpc' = "idle"
    /\ UNCHANGED <<acc, skip_requested, timeline, media, streams, config, flags, levels, score, worker,
                   calls>>

\* get_current_accuracy called by draw_rhythm_indicator_hud while a song
\* plays, line 345: the test of recent_hits.
C_ga_1 ==
    /\ cpc = "idle"
    /\ state = "PLAYING"
    /\ IF recent_hits = <<>>
       THEN acc' = <<0, 1>> /\ cpc' = cpc
       ELSE acc' = acc /\ cpc' = "ga_2"
    /\ UNCHANGED <<ctl, streams, config, flags, levels, score, worker, state,
                   player_paused, score_result, skip_requested, timeline, media,
                   calls>>

\* line 346: sum(self.recent_hits).
C_ga_2 ==
    /\ cpc = "ga_2"
    /\ ctl' = [ctl EXCEPT !.reg = SumSeq(recent_hits)]
    /\ cpc' = "ga_3"
    /\ UNCHANGED <<streams, config, flags, levels, score, worker, player, calls>>

\* line 346: len(self.recent_hits), the division and the return; a
\* division by zero raises in the caller.
C_ga_3 ==
    /\ cpc = "ga_3"
    /\ IF recent_hits = <<>>
       THEN acc' = acc /\ cpc' = "crashed"
       ELSE acc' = <<ctl.reg, Len(recent_hits)>> /\ cpc' = "idle"
    /\ ctl' = [ctl EXCEPT !.reg = 0]
    /\ UNCHANGED <<streams, config, flags, levels, score, worker, state,
                   player_paused, score_result, skip_requested, timeline, media,
                   calls>>

\* Scorer.shutdown -> stop, line 111: running = False.
C_stop ==
    /\ cpc = "idle"
    /\ running' = FALSE
    /\ cpc' = "join"
    /\ UNCHANGED <<ctl, streams, config, is_singing_segment, restart_requested,
                   paused, levels, score, worker, player, calls>>

\* lines 112-118: join returns when the worker has ended or after the
\* timeout, whichever comes first; then stop_streams.
C_join ==
    /\ cpc = "join"
    /\ cpc' = "st_mic1"
    /\ ctl' = [ctl EXCEPT !.ret = "off"]
    /\ UNCHANGED <<streams, config, flags, levels, score, worker, player, calls>>

----------------------------------------------------------------------------
\* Lyric synchronisation and seeking (karaoke_player.py), on the main thread.
\* Times are whole milliseconds; page_index and current_line_index count
\* lines from 0 as the program does, lyrics[i + 1] being the program's
\* lyrics[i].

\* The length given to a line without end_time, and how long before its start
\* a line becomes the current one (lines 831, 839, 850, 527).
DefaultLineMs == 5000
LeadMs == 200

\* line.get('end_time', line['time'] + 5000).
EndOf(line) ==
    IF line.end_time = None THEN line.time + DefaultLineMs ELSE line.end_time

\* get_current_time, lines 496-502.
get_current_time ==
    IF music_pos = -1 THEN 0 ELSE music_pos + current_offset_ms

\* update, lines 828-832: the loop over the lines, with i lines accepted so
\* far; the result is found_index.
RECURSIVE FoundIndex(_, _, _)
FoundIndex(lyr, t, i) ==
    IF i < Len(lyr) /\ t >= lyr[i + 1].time - LeadMs
    THEN FoundIndex(lyr, t, i + 1)
    ELSE i - 1

\* The page flip that moves to the last line already over, however many
\* lines that skips.
PageAfterTickCatchUp(lyr, pi, t) ==
    IF pi < Len(lyr) /\ t > EndOf(lyr[pi + 1])
    THEN Max(pi + 1,
             Cardinality({i \in 1..Len(lyr) : t > EndOf(lyr[i])}))
    ELSE pi

\* update, lines 837-843: the page flip.
PageAfterTick(lyr, pi, t) ==
    IF pi < Len(lyr) /\ t > EndOf(lyr[pi + 1]) THEN pi + 1 ELSE pi

\* update, lines 848-854: the value passed to set_singing_segment.
InSegment(lyr, idx, t) ==
    IF 0 <= idx /\ idx < Len(lyr)
    THEN lyr[idx + 1].time <= t /\ t <= EndOf(lyr[idx + 1])
    ELSE FALSE

\* KaraokePlayer.update while PLAYING with no skip request pending, not
\* paused and with the music playing, lines 812-854.
C_update ==
    /\ cpc = "idle"
    /\ state = "PLAYING"
    /\ ~skip_requested
    /\ ~player_paused
    /\ music_pos # -1
    /\ calls' = [calls EXCEPT !.ticked = TRUE]
    /\ LET t == get_current_time
           found_index == FoundIndex(lyrics, t, 0)
           page == IF page_index = None THEN 0 ELSE page_index
       IN /\ page_index' = PageAfterTick(lyrics, page, t)
          /\ current_line_index' = found_index
          /\ is_singing_segment' = InSegment(lyrics, found_index, t)
    /\ UNCHANGED <<control, streams, config, running, restart_requested, paused,
                   levels, score, worker, state, player_paused, score_result, acc, skip_requested,
                   lyrics, current_offset_ms, total_duration, music_pos, media>>

\* seek_song, lines 508-514, in milliseconds: the new position.
SeekTarget(t, delta_sec, duration) ==
    LET new_pos == Max(0, t + 1000 * delta_sec)
    IN IF duration > 0 /\ new_pos >= duration THEN duration - 1000 ELSE new_pos

\* The test against the start of the line in place of its end.
SeekAdvancesOnStart(lyr, target_ms, pi) == target_ms > lyr[pi + 2].time

\* seek_song, lines 526-527: the line after the pointer has ended before
\* the target.
SeekAdvances(lyr, target_ms, pi) == target_ms > EndOf(lyr[pi + 2])

RECURSIVE SeekPageByOne(_, _, _)
RECURSIVE SeekPage(_, _, _)

\* The scan of seek_song that moves one line at a time.
SeekPageByOne(lyr, target_ms, pi) ==
    IF pi + 1 < Len(lyr) /\ SeekAdvances(lyr, target_ms, pi)
    THEN SeekPageByOne(lyr, target_ms, pi + 1)
    ELSE pi

\* seek_song, lines 522-530: the scan from page 0.
SeekPage(lyr, target_ms, pi) ==
    IF pi + 1 < Len(lyr) /\ SeekAdvances(lyr, target_ms, pi)
    THEN SeekPage(lyr, target_ms, pi + 2)
    ELSE pi

\* The seek without the reset of line 522: the scan starts at the page the
\* pointer is on.
C_seek_doneFromPage(delta_sec, maxSeeks) ==
    /\ cpc = "idle"
    /\ state = "PLAYING"
    /\ calls.seeks < maxSeeks
    /\ calls' = [calls EXCEPT !.seeks = @ + 1]
    /\ LET new_pos == SeekTarget(get_current_time, delta_sec, total_duration)
       IN /\ music_pos' = 0
          /\ current_offset_ms' = new_pos
          /\ page_index' = SeekPage(lyrics, new_pos,
                                    IF page_index = None THEN 0 ELSE page_index)
    /\ UNCHANGED <<control, streams, config, flags, levels, score, worker, state,
                   player_paused, score_result, acc, skip_requested, lyrics, current_line_index,
                   total_duration, media>>

\* seek_song(delta_sec) when play(start=new_pos) succeeds, lines 508-530:
\* the music restarts, its reported position with it.
C_seek_done(delta_sec, maxSeeks) ==
    /\ cpc = "idle"
    /\ state = "PLAYING"
    /\ calls.seeks < maxSeeks
    /\ calls' = [calls EXCEPT !.seeks = @ + 1]
    /\ LET new_pos == SeekTarget(get_current_time, delta_sec, total_duration)
       IN /\ music_pos' = 0
          /\ current_offset_ms' = new_pos
          /\ page_index' = SeekPage(lyrics, new_pos, 0)
    /\ UNCHANGED <<control, streams, config, flags, levels, score, worker, state,
                   player_paused, score_result, acc, skip_requested, lyrics, current_line_index,
                   total_duration, media>>

\* seek_song when play(start=new_pos) raises (the format cannot be
\* positioned), lines 516-532: nothing is assigned.
C_seek_failed(maxSeeks) ==
    /\ cpc = "idle"
    /\ state = "PLAYING"
    /\ calls.seeks < maxSeeks
    /\ calls' = [calls EXCEPT !.seeks = @ + 1]
    /\ UNCHANGED <<control, streams, config, flags, levels, score, worker,
                   player>>

\* seek_song, called with 10 or -10 by the arrow keys (lines 670-673).
C_seek_song(deltas, outcomes, maxSeeks) ==
    \E d \in deltas, ok \in outcomes :
        IF ok THEN C_seek_done(d, maxSeeks) ELSE C_seek_failed(maxSeeks)

\* Playback: the position pygame reports grows while the music plays (line
\* 500), up to the song's length, or to maxMs when the length is unknown.
MusicPlays(steps, maxMs) ==
    /\ state = "PLAYING"
    /\ ~player_paused
    /\ music_pos # -1
    /\ \E d \in steps :
          /\ get_current_time + d
                <= (IF total_duration > 0 THEN total_duration ELSE maxMs)
          /\ music_pos' = music_pos + d
    /\ UNCHANGED <<control, streams, config, flags, levels, score, worker, state,
                   player_paused, score_result, acc, skip_requested, lyrics, page_index,
                   current_line_index, current_offset_ms, total_duration,
                   media, calls>>

\* switch_lyrics, called by the L key (lines 485-494, 668-669): with more
\* than one lyric file, the next one is selected and parsed; page_index is
\* not assigned.  An exception of parse_lrc ends the application as in
\* start_song.
C_switch_lyrics ==
    /\ cpc = "idle"
    /\ state = "PLAYING"
    /\ IF Len(lyrics_files) <= 1
       THEN UNCHANGED vars
       ELSE LET index == (current_lyrics_index + 1) % Len(lyrics_files)
                parsed == parse_lrc(lyrics_files[index + 1])
            IN /\ current_lyrics_index' = index
               /\ IF parsed.raised
                  THEN /\ running' = FALSE
                       /\ cpc' = "join"
                       /\ UNCHANGED <<lyrics, ctl>>
                  ELSE /\ lyrics' = parsed.lines
                       /\ UNCHANGED <<running, control>>
               /\ UNCHANGED <<streams, config, is_singing_segment,
                              restart_requested, paused, levels, score, worker,
                              state, player_paused, score_result, acc, skip_requested,
                              page_index, current_line_index,
                              current_offset_ms, total_duration, music_pos,
                              current_song, lyrics_files, current_track_type,
                              music_file, calls>>

\* ---- toggle_audio_track (karaoke_player.py:536-568).

\* The whole milliseconds t below 4004 for which the double
\* (t / 1000.0) * 1000 falls just under t, so that int() gives t - 1
\* (lines 547 and 565, IEEE 754 binary64).
LossyMs == {1001 + 2 * k : k \in 0..11} \cup {2002 + 4 * k : k \in 0..11}

\* The offset computed from whole seconds only.
IntMsWholeSeconds(t) == (t \div 1000) * 1000

\* int((t / 1000.0) * 1000), lines 547 and 565, for t below 4004.
IntMs(t) == IF t \in LossyMs THEN t - 1 ELSE t

\* lines 552-559: the variant to switch to, "none" when its file does not
\* exist.  The instrumental file is the one start_song loaded.
TargetTrack ==
    IF current_track_type = "instrumental"
    THEN IF current_song.original THEN "vocal" ELSE "none"
    ELSE "instrumental"

\* toggle_audio_track when load and play succeed, lines 561-566.
C_toggle_done ==
    /\ cpc = "idle"
    /\ state = "PLAYING"
    /\ TargetTrack # "none"
    /\ music_file' = TargetTrack
    /\ music_pos' = 0
    /\ current_offset_ms' = IntMs(get_current_time)
    /\ current_track_type' = TargetTrack
    /\ UNCHANGED <<control, streams, config, flags, levels, score, worker, state,
                   player_paused, score_result, acc, skip_requested, lyrics, page_index,
                   current_line_index, total_duration, current_song,
                   lyrics_files, current_lyrics_index, calls>>

\* toggle_audio_track when the file is loaded and play(start=...) raises
\* (lines 562-564, 567-568): the new file is loaded and nothing plays; the
\* offset and the track type keep their values.
C_toggle_failed ==
    /\ cpc = "idle"
    /\ state = "PLAYING"
    /\ TargetTrack # "none"
    /\ music_file' = TargetTrack
    /\ music_pos' = -1
    /\ UNCHANGED <<control, streams, config, flags, levels, score, worker, state,
                   player_paused, score_result, acc, skip_requested, lyrics, page_index,
                   current_line_index, current_offset_ms, total_duration,
                   current_song, lyrics_files, current_lyrics_index,
                   current_track_type, calls>>

\* toggle_audio_track when the other variant has no file, line 561: nothing
\* is done.
C_toggle_none ==
    /\ cpc = "idle"
    /\ state = "PLAYING"
    /\ TargetTrack = "none"
    /\ UNCHANGED vars

\* toggle_audio_track, called by the V key (line 667).
C_toggle_audio_track(outcomes) ==
    \/ \E ok \in outcomes : IF ok THEN C_toggle_done ELSE C_toggle_failed
    \/ C_toggle_none

\* set_config after its first step, and Scorer.start.
SetConfigSteps ==
    \/ C_sc_cmp \/ C_sc_1 \/ C_sc_2 \/ C_sc_3 \/ C_sc_4 \/ C_sc_5 \/ C_sc_6
    \/ C_sc_7 \/ C_sc_flag \/ C_start

\* stop_streams on the control thread.
StopStreamsSteps(closes) ==
    C_st_mic1(closes) \/ C_st_mic2(closes) \/ C_st_out(closes)

\* A song from start_song to the score screen.
SongSteps(maxSongs) ==
    \/ C_start_song(maxSongs, OneLineSongs) \/ C_rs_1 \/ C_rs_2 \/ C_rs_3
    \/ C_finish_song \/ StopStreamsSteps({TRUE}) \/ C_gs_1 \/ C_gs_2 \/ C_gs_3

\* Scorer.stop.
ShutdownSteps == C_stop \/ C_join \/ StopStreamsSteps({TRUE})

----------------------------------------------------------------------------
\* Initial state: Scorer.__init__ (scorer.py:28-63) and the player fields of
\* KaraokePlayer.__init__ (karaoke_player.py:209-245); the control thread is
\* about to make the constructor's apply_audio_config call, with mic 1 the
\* first input device if the host has one.
Init ==
    /\ stream_mic1 = NoStream /\ stream_mic2 = NoStream /\ stream_output = NoStream
    /\ output_channels = 2
    /\ input_device_index_1 = None /\ input_device_index_2 = None
    /\ volume_mic1 = 1 /\ volume_mic2 = 1
    /\ monitoring_enabled = FALSE
    /\ difficulty = "Normal"
    /\ running = FALSE /\ is_singing_segment = FALSE /\ restart_requested = FALSE
    /\ current_volume_mic1 = 0 /\ current_volume_mic2 = 0
    /\ paused = TRUE
    /\ chunk = DefaultChunk
    /\ total_samples = 0 /\ hit_samples = 0 /\ recent_hits = <<>>
    /\ pc = "nothread" /\ loc = InitLoc
    /\ cpc = "sc_cmp"
    /\ \E d \in {None, 0} :
         ctl = [args |-> [d1 |-> d, d2 |-> None, mon |-> FALSE, ch |-> DefaultChunk,
                          diff |-> "Facil", v1 |-> 1, v2 |-> 1],
                need_restart |-> FALSE, ret |-> "idle", reg |-> 0]
    /\ state = "MENU" /\ player_paused = FALSE /\ score_result = 0
    /\ acc = <<0, 1>>
    /\ lyrics = <<>> /\ page_index = None /\ current_line_index = -1
    /\ current_offset_ms = 0 /\ total_duration = 0 /\ music_pos = -1
    /\ current_song = NoSong /\ lyrics_files = <<>>
    /\ current_lyrics_index = 0
    /\ current_track_type = "instrumental" /\ music_file = "none"
    /\ skip_requested = FALSE
    /\ calls = [songs |-> 0, configs |-> 0, samples |-> 0, seeks |-> 0,
                write_failed |-> FALSE, close_failed |-> {},
                ticked |-> FALSE, skip_song |-> 0]

----------------------------------------------------------------------------
\* SpecScore: two songs on mic 1 with the constructor's configuration
\* (difficulty "Facil"); every read returns a buffer of level 1.5 (a miss)
\* or 2.0 (a hit) and every device operation succeeds.
ScoreNorms == {NormOf(150), NormOf(200)}

NextScore ==
    \/ WorkerLoop({TRUE}, {TRUE})
    \/ WorkerCycle(ScoreNorms, {}, {TRUE}, MaxSamples)
    \/ WorkerScore \/ W_pop
    \/ SetConfigSteps
    \/ SongSteps(MaxSongs)
    \/ \E b \in BOOLEAN : C_tick(b)

SpecScore == Init /\ [][NextScore]_vars

\* The window environment: the score environment and the HUD that reads the
\* accuracy while a song plays.
NextWindow ==
    \/ NextScore
    \/ C_ga_1 \/ C_ga_2 \/ C_ga_3
SpecWindow == Init /\ [][NextWindow]_vars

\* SpecHit: one song; set_config switches mic 2 on and chooses the
\* difficulty; mic 1 reads levels 1.5, 2.0 or 16.0 and mic 2 levels 1.8 or
\* 2.0 (0 when the read fails).
HitNorms1 == {NormOf(150), NormOf(200), NormOf(1600)}
HitNorms2 == {NormOf(180), NormOf(188)}
HitArgs == [d1 : {0}, d2 : {1}, mon : {FALSE}, ch : {DefaultChunk},
            diff : Difficulties, v1 : {1}, v2 : {1}]

NextHit ==
    \/ WorkerLoop({TRUE}, {TRUE}) \/ W_r_clear
    \/ WorkerCycle(HitNorms1, HitNorms2, {TRUE}, HitSamples)
    \/ WorkerScore
    \/ SetConfigSteps
    \/ C_start_song(1, OneLineSongs) \/ C_rs_1 \/ C_rs_2 \/ C_rs_3
    \/ \E a \in HitArgs : C_set_config(a, HitConfigs)
    \/ \E b \in BOOLEAN : C_tick(b)

SpecHit == Init /\ [][NextHit]_vars

\* The stream environment: nobody sings (no sample is counted); set_config
\* is called with a change of each kind while the worker runs, opens and
\* monitor writes may fail, the song is paused, resumed and finished, and the
\* engine is shut down.
StreamNorms == {NormOf(200)}
BaseArgs == [d1 |-> 0, d2 |-> None, mon |-> FALSE, ch |-> DefaultChunk,
             diff |-> "Facil", v1 |-> 1, v2 |-> 1]
StreamArgs ==
    { [BaseArgs EXCEPT !.d2 = 1],
      [BaseArgs EXCEPT !.d1 = None, !.d2 = 1],
      [BaseArgs EXCEPT !.mon = TRUE],
      [BaseArgs EXCEPT !.ch = AltChunk],
      [BaseArgs EXCEPT !.diff = "Dificil"],
      [BaseArgs EXCEPT !.v1 = 2] }
WorkerStreams ==
    \/ WorkerLoop(BOOLEAN, {TRUE}) \/ WorkerMonitor(BOOLEAN)
    \/ W_r_clear \/ W_mon_fail
    \/ WorkerCycle(StreamNorms, StreamNorms, BOOLEAN, 0)
ControlStreams ==
    \/ SetConfigSteps
    \/ \E a \in StreamArgs : C_set_config(a, StreamConfigs)
    \/ C_start_song(StreamSongs, OneLineSongs) \/ C_rs_1 \/ C_rs_2 \/ C_rs_3
    \/ C_toggle_pause
    \/ C_finish_song \/ C_gs_1
    \/ ShutdownSteps
NextStreams == WorkerStreams \/ ControlStreams
SpecStreams == Init /\ [][NextStreams]_vars

\* The worker thread is scheduled as long as it can take a step, and a call
\* the control thread has begun runs to its end.
FairStreams ==
    /\ SpecStreams
    /\ WF_vars(WorkerStreams)
    /\ WF_vars(cpc # "idle" /\ ControlStreams)

\* The shutdown environment: stop() is called at any moment after start(),
\* with the worker opening its streams, paused, restarting after a set_config
\* or inside a cycle; join() returns whether or not the worker has ended.
StopArgs == { [BaseArgs EXCEPT !.d2 = 1, !.mon = TRUE] }
NextStop ==
    \/ WorkerStreams
    \/ SetConfigSteps
    \/ \E a \in StopArgs : C_set_config(a, StopConfigs)
    \/ C_start_song(1, OneLineSongs) \/ C_rs_1 \/ C_rs_2 \/ C_rs_3
    \/ C_toggle_pause
    \/ ShutdownSteps
SpecStop == Init /\ [][NextStop]_vars

\* Both threads are scheduled: the worker as long as it can take a step, and
\* a call the control thread has begun runs to its end (join is bounded).
FairStop ==
    /\ SpecStop
    /\ WF_vars(WorkerStreams)
    /\ WF_vars(cpc # "idle" /\ NextStop)

\* The closing environment: the shutdown environment with opens and monitor
\* writes that succeed, a song that is finished, and stop_stream() / close()
\* calls that may raise on any handle, in the worker's stop_streams and in
\* the control thread's.
WorkerClose ==
    \/ WorkerLoop({TRUE}, BOOLEAN) \/ WorkerMonitor({TRUE}) \/ W_r_clear
    \/ WorkerCycle(StreamNorms, StreamNorms, {TRUE}, 0)
NextClose ==
    \/ WorkerClose
    \/ SetConfigSteps
    \/ \E a \in StopArgs : C_set_config(a, StopConfigs)
    \/ C_start_song(1, OneLineSongs) \/ C_rs_1 \/ C_rs_2 \/ C_rs_3
    \/ C_toggle_pause
    \/ C_finish_song \/ C_gs_1
    \/ C_stop \/ C_join \/ StopStreamsSteps(BOOLEAN)
SpecClose == Init /\ [][NextClose]_vars

\* The synchronisation environment: one song of the two kinds parse_lrc
\* produces (lines with explicit ends, and lines without), playback
\* advancing by half a second or a second between ticks, and seeks by the
\* arrow keys, which may fail.
TimedFile ==
    LyricFile("v1", <<JsonRow(0, 10, <<>>), JsonRow(15, 30, <<>>),
                      JsonRow(40, 60, <<>>)>>)
TimedSong == Song(1, <<TimedFile>>, 15000, FALSE)
TimedLyrics == parse_lrc(TimedFile).lines
LrcSong ==
    Song(2, <<LyricFile("lrc", <<LrcRow("tag", 0, 0, <<"la">>),
                                 LrcRow("tag", 0, 260, <<"la">>)>>)>>,
         0, FALSE)
SeekDeltas == {10, -10}
NextSync ==
    \/ SetConfigSteps
    \/ C_start_song(MaxSyncSongs, {TimedSong, LrcSong}) \/ C_rs_1 \/ C_rs_2 \/ C_rs_3
    \/ C_update
    \/ C_seek_song(SeekDeltas, BOOLEAN, MaxSeeks)
    \/ MusicPlays({500, 1000}, MaxPlayMs)
SpecSync == Init /\ [][NextSync]_vars

\* The queue environment: songs started one after the other from the menu
\* and from the score screen, each with ticks, seeks and switches of the
\* audio variant, and finished at any moment (the music ends); the score
\* screen left for the menu, the configuration screen opened and closed, and
\* 'next' and 'stop' requests of the API in any state.  No lyric file raises
\* and no audio thread is scheduled.
QueueSongs == {Song(1, <<TimedFile>>, 4000, TRUE), Song(2, <<TimedFile>>, 4000, FALSE)}
NextQueue ==
    \/ SetConfigSteps
    \/ C_start_song(MaxQueueSongs, QueueSongs) \/ C_rs_1 \/ C_rs_2 \/ C_rs_3
    \/ C_update
    \/ MusicPlays({1000}, MaxPlayMs)
    \/ C_seek_song(SeekDeltas, BOOLEAN, MaxSeeks)
    \/ C_toggle_audio_track(BOOLEAN)
    \/ C_finish_song \/ StopStreamsSteps({TRUE}) \/ C_gs_1
    \/ C_update_skip \/ C_score_to_menu \/ C_key_config
    \/ A_player_control({"next", "stop"})
SpecQueue == Init /\ [][NextQueue]_vars

\* The carry-over environment: two songs of three lines on mic 1, one after
\* the other, with the audio worker running; update ticks while the music
\* plays and the song is finished at any moment, in or out of a line; every
\* device operation succeeds.
NextCarry ==
    \/ WorkerLoop({TRUE}, {TRUE})
    \/ WorkerCycle(ScoreNorms, {}, {TRUE}, MaxCarrySamples)
    \/ WorkerScore
    \/ SetConfigSteps
    \/ C_start_song(MaxCarrySongs, {Song(1, <<TimedFile>>, 4000, FALSE)})
    \/ C_rs_1 \/ C_rs_2 \/ C_rs_3
    \/ C_update
    \/ MusicPlays({1000}, MaxPlayMs)
    \/ C_finish_song \/ StopStreamsSteps({TRUE}) \/ C_gs_1 \/ C_gs_2 \/ C_gs_3
SpecCarry == Init /\ [][NextCarry]_vars

\* The audio-variant environment: a song with a vocal file and one without,
\* playback advancing by 500 or 501 ms, and the V key at any moment.
TrackSongs == {Song(1, <<TimedFile>>, 0, TRUE), Song(2, <<TimedFile>>, 0, FALSE)}
NextTrack ==
    \/ SetConfigSteps
    \/ C_start_song(1, TrackSongs) \/ C_rs_1 \/ C_rs_2 \/ C_rs_3
    \/ MusicPlays({500, 501}, MaxTrackMs)
    \/ C_toggle_audio_track(BOOLEAN)
SpecTrack == Init /\ [][NextTrack]_vars

\* The lyric environment: songs whose scripts are well formed, lack a key,
\* are out of order, do not load, do not decode or do not exist; songs with
\* two scripts, switched with the L key while the song plays.
WordFile ==
    LyricFile("v1",
        <<JsonRow(10, 20, <<[start |-> 10, end |-> 15]>>),
          JsonRow(25, 40, <<[start |-> 25, end |-> 30],
                            [start |-> 30, end |-> 40]>>)>>)
HelloFile ==
    LyricFile("lrc", <<LrcRow("meta", 0, 0, <<"x">>),
                       LrcRow("tag", 1, 250, <<"hello", " ", "world">>),
                       LrcRow("plain", 0, 0, <<"x">>),
                       LrcRow("no_fraction", 1, 300, <<"x">>),
                       LrcRow("prefixed", 1, 1000, <<" ", "la", " ">>)>>)
ParseSongs ==
    { Song(1, <<WordFile, HelloFile>>, 0, FALSE),
      \* a line without `end`
      Song(2, <<LyricFile("v1", <<JsonRow(10, None, <<>>),
                                  JsonRow(30, 40, <<>>)>>)>>, 0, FALSE),
      \* lines out of order
      Song(3, <<LyricFile("v2", <<JsonRow(30, 40, <<>>),
                                  JsonRow(10, 20, <<>>)>>)>>, 0, FALSE),
      \* JSON text that does not load, then an LRC file without tags
      Song(4, <<[LyricFile("v1", <<>>) EXCEPT !.readable = FALSE],
                LyricFile("lrc", <<LrcRow("plain", 0, 0, <<"x">>)>>)>>,
           0, FALSE),
      \* files that no longer exist
      Song(5, <<[LyricFile("v1", <<>>) EXCEPT !.missing = TRUE],
                [HelloFile EXCEPT !.missing = TRUE]>>, 0, FALSE),
      Song(6, <<HelloFile>>, 0, FALSE),
      \* an LRC file that is not UTF-8
      Song(7, <<[HelloFile EXCEPT !.readable = FALSE]>>, 0, FALSE),
      Song(8, <<WordFile, TimedFile, [HelloFile EXCEPT !.readable = FALSE]>>,
           0, FALSE),
      Song(9, <<>>, 0, FALSE) }
NextParse ==
    \/ SetConfigSteps
    \/ C_start_song(MaxParseSongs, ParseSongs) \/ C_rs_1 \/ C_rs_2 \/ C_rs_3
    \/ C_switch_lyrics
    \/ C_update
    \/ MusicPlays({1000}, MaxParseMs)
    \/ ShutdownSteps
SpecParse == Init /\ [][NextParse]_vars

\* The configuration environment: set_config calls of every kind, a repeat
\* of the current configuration included, before the worker starts, while it
\* runs (paused, then playing) and after stop().
ConfigArgs == StreamArgs \cup {BaseArgs}
NextConfig ==
    \/ WorkerStreams
    \/ SetConfigSteps
    \/ \E a \in ConfigArgs : C_set_config(a, ConfigCalls)
    \/ C_start_song(1, OneLineSongs) \/ C_rs_1 \/ C_rs_2 \/ C_rs_3
    \/ ShutdownSteps
SpecConfig == Init /\ [][NextConfig]_vars

\* The failure environment: both mics and the monitor are configured, every
\* open, read and write may fail, the chunk size stays, one cycle is counted.
FailArgs == {[BaseArgs EXCEPT !.d2 = 1, !.mon = TRUE]}
WorkerFail ==
    \/ WorkerLoop(BOOLEAN, {TRUE}) \/ WorkerMonitor(BOOLEAN)
    \/ W_r_clear \/ W_mon_fail
    \/ WorkerCycle(StreamNorms, StreamNorms, BOOLEAN, FailSamples)
    \/ WorkerScore
NextFail ==
    \/ WorkerFail
    \/ SetConfigSteps
    \/ \E a \in FailArgs : C_set_config(a, FailConfigs)
    \/ C_start_song(1, OneLineSongs) \/ C_rs_1 \/ C_rs_2 \/ C_rs_3
    \/ \E b \in BOOLEAN : C_tick(b)
    \/ C_toggle_pause
SpecFail == Init /\ [][NextFail]_vars

----------------------------------------------------------------------------
\* Properties of the score (SpecScore).

\* A step of the worker from position a to position b.
WStep(a, b) == pc = a /\ pc' = b

\* C1: whatever the interleaving of worker cycles and control calls,
\* get_score() is an integer from 0 to 100, it is 0 when total_samples is 0,
\* and so is the score finish_song stored.
C1_ScoreRange ==
    /\ get_score \in 0..100
    /\ total_samples = 0 => get_score = 0
    /\ score_result \in 0..100

\* C1 witness: a score has been read with more hits than samples on record
\* (after a torn reset), where only the cap keeps it at 100.
C1_Witness ==
    /\ state = "SCORE"
    /\ total_samples > 0
    /\ hit_samples > total_samples
    /\ get_score = 100

\* round(x) of Python for x = 100 * h / t: to the nearest integer, a half
\* to the even neighbour.
RoundPct(h, t) ==
    LET q == (100 * h) \div t
        r == (100 * h) % t
    IN  IF 2 * r < t THEN q
        ELSE IF 2 * r > t THEN q + 1
        ELSE IF q % 2 = 0 THEN q ELSE q + 1

\* C2 as stated: with 0 <= hit_samples <= total_samples and total_samples > 0,
\* get_score() is hit_samples / total_samples * 100 rounded to the nearest
\* integer.
C2_Rounded ==
    (total_samples > 0 /\ hit_samples <= total_samples)
        => get_score = Min(100, RoundPct(hit_samples, total_samples))

\* C2 amended: get_score() is that percentage truncated: the largest
\* integer s with s * total_samples <= 100 * hit_samples.
C2_Truncated ==
    (total_samples > 0 /\ hit_samples <= total_samples)
        => /\ get_score * total_samples <= 100 * hit_samples
           /\ 100 * hit_samples < (get_score + 1) * total_samples

\* C2 witness: two hits in three samples, stored by finish_song as 66.
C2_Witness ==
    /\ state = "SCORE"
    /\ total_samples = 3 /\ hit_samples = 2
    /\ score_result = 66

\* The hit rule of the claim, on levels and a threshold in hundredths:
\* max(mic1, 0.8 * mic2) > threshold.
LoudEnough(v1, v2, thr) == 10 * v1 > 10 * thr \/ 8 * v2 > 10 * thr

\* C3: the threshold a cycle uses is 1.5, 7.0 or 15.0 for the difficulty
\* Easy, Normal or Hard it reads, and a counted cycle adds a hit and records
\* the outcome 1 if and only if max(mic1, 0.8 * mic2) is strictly greater
\* than that threshold.
C3_HitRule ==
    [][ /\ WStep("thr", "seg")
            => loc'.threshold = CASE difficulty = "Facil" -> 150
                                  [] difficulty = "Normal" -> 700
                                  [] difficulty = "Dificil" -> 1500
        /\ WStep("tot_w", "hit_r")
            => LoudEnough(current_volume_mic1, current_volume_mic2, loc.threshold)
        /\ WStep("tot_w", "app")
            => ~LoudEnough(current_volume_mic1, current_volume_mic2, loc.threshold)
        /\ WStep("app", "len")
            => (recent_hits'[Len(recent_hits')] = 1
                  <=> LoudEnough(current_volume_mic1, current_volume_mic2, loc.threshold))
      ]_vars

\* C3 witness: a level of 2.0 on mic 1 at Easy was recorded as a hit.
C3_Witness ==
    /\ pc = "len"
    /\ loc.threshold = 150
    /\ current_volume_mic1 = 200
    /\ recent_hits # <<>> /\ recent_hits[Len(recent_hits)] = 1

\* C4: a worker step changes the three score fields only in a
\* counted cycle, where it adds exactly 1 to total_samples, adds 1 to
\* hit_samples on a hit and appends exactly one outcome (then evicts one).
C4_CycleEffect ==
    [][ /\ (pc' # pc /\ pc \notin {"tot_w", "hit_w", "app", "pop"})
            => UNCHANGED <<total_samples, hit_samples, recent_hits>>
        /\ WStep("seg", "loop") => ~is_singing_segment
        /\ WStep("seg", "tot_r") => is_singing_segment
        /\ WStep("tot_w", "hit_r") \/ WStep("tot_w", "app")
            => /\ total_samples' = total_samples + 1
               /\ UNCHANGED <<hit_samples, recent_hits>>
        /\ WStep("hit_w", "app")
            => /\ hit_samples' = hit_samples + 1
               /\ UNCHANGED <<total_samples, recent_hits>>
        /\ WStep("app", "len")
            => /\ Len(recent_hits') = Len(recent_hits) + 1
               /\ UNCHANGED <<total_samples, hit_samples>>
      ]_vars

\* C5: recent_hits never holds more than WindowSize outcomes.
C5_WindowBound == Len(recent_hits) <= WindowSize

\* The fraction <<n, d>> lies in [0, 1].
InUnit(f) == 0 <= f[1] /\ f[1] <= f[2] /\ f[2] > 0

\* C6: the value get_current_accuracy() returned is in [0, 1].
C6_AccuracyInUnit == InUnit(acc)

\* C7: when reset() returns, total_samples and hit_samples are 0
\* and recent_hits is empty, also when the worker is in a scoring step.
C7_ResetClears ==
    [][ (cpc = "rs_3" /\ cpc' = "idle")
            => (total_samples' = 0 /\ hit_samples' = 0 /\ recent_hits' = <<>>) ]_vars

----------------------------------------------------------------------------
\* Properties of the streams (SpecStreams, FairStreams, SpecConfig).

AllClosed ==
    stream_mic1 = NoStream /\ stream_mic2 = NoStream /\ stream_output = NoStream

\* The worker thread exists and has neither returned nor raised.
WorkerAlive == pc \notin {"nothread", "done", "crashed"}

\* C8: if paused becomes true while the worker is running, then, unless it
\* is unpaused or stopped first, the worker reaches a state in which the
\* mic 1, mic 2 and monitor handles are all empty.
C8_PauseClosesAll ==
    (paused /\ running /\ WorkerAlive)
        ~> (AllClosed \/ ~paused \/ ~running \/ ~WorkerAlive)

\* A step of the control thread from position a to position b.
CStep(a, b) == cpc = a /\ cpc' = b

\* Every open handle was opened with the current device and chunk size (the
\* monitor handle may outlive the monitoring flag, which the worker itself
\* clears when a write fails).
StreamsMatchConfig ==
    /\ stream_mic1 # NoStream => stream_mic1 = <<input_device_index_1, chunk>>
    /\ stream_mic2 # NoStream => stream_mic2 = <<input_device_index_2, chunk>>
    /\ stream_output # NoStream => stream_output[3] = chunk

\* C9: a restart request is never lost: when no set_config call is in
\* progress and the worker is in the body of a cycle with no restart
\* pending, the streams it uses are those of the last set_config call.
C9_RestartNeverLost ==
    (cpc = "idle" /\ running /\ ~restart_requested /\ pc = "alloc1")
        => StreamsMatchConfig

\* The arguments of the set_config call in progress equal the engine's
\* configuration.
ArgsAreConfig ==
    /\ ctl.args.d1 = input_device_index_1 /\ ctl.args.d2 = input_device_index_2
    /\ ctl.args.mon = monitoring_enabled /\ ctl.args.ch = chunk
    /\ ctl.args.diff = difficulty
    /\ ctl.args.v1 = volume_mic1 /\ ctl.args.v2 = volume_mic2

\* C10: set_config decides that a restart is needed exactly when mic 1,
\* mic 2, the monitoring flag or the chunk size differs from the argument
\* (difficulty and gains play no part); it raises restart_requested exactly
\* when a restart is needed and the worker is running, and leaves it alone
\* otherwise; a call whose arguments already are the configuration changes
\* nothing.
C10_SetConfigRestart ==
    [][ /\ CStep("sc_cmp", "sc_1")
            => ctl'.need_restart =
                  (\/ ctl.args.d1 # input_device_index_1
                   \/ ctl.args.d2 # input_device_index_2
                   \/ ctl.args.mon # monitoring_enabled
                   \/ ctl.args.ch # chunk)
        /\ (cpc = "sc_flag" /\ cpc' # cpc)
            => restart_requested' = IF ctl.need_restart /\ running
                                    THEN TRUE ELSE restart_requested
        /\ (cpc \in {"sc_1", "sc_2", "sc_3", "sc_4", "sc_5", "sc_6", "sc_7", "sc_flag"}
              /\ cpc' # cpc /\ ArgsAreConfig /\ ~ctl.need_restart)
            => UNCHANGED <<config, flags, streams>>
      ]_vars

\* C10 witness: a call that changed only the difficulty, made while the
\* worker runs, is about to return without a restart request.
C10_Witness ==
    /\ cpc = "sc_flag" /\ running /\ WorkerAlive
    /\ ~ctl.need_restart /\ ~restart_requested
    /\ ctl.args.diff = "Dificil" /\ difficulty = "Dificil"

----------------------------------------------------------------------------
\* Properties of stream failures (SpecFail).

\* C11: a failed open of a mic leaves that mic's handle empty and returns
\* from start_streams into the loop; a read that fails or is skipped leaves
\* the cycle's buffer all zeros, and a silent buffer gives level 0; a failed
\* monitor write goes on to the threshold step; the worker never raises.
C11_FailuresContained ==
    [][ /\ (pc = "ss_mic1" /\ pc' # pc /\ pc' # "ss_mic2")
            => stream_mic1' = NoStream /\ pc' \in {"loop", "r_clear", "alloc1"}
        /\ (pc = "ss_mic2" /\ pc' # pc /\ pc' # "ss_mon")
            => stream_mic2' = NoStream /\ pc' \in {"loop", "r_clear", "alloc1"}
        /\ (WStep("read1", "read2") /\ loc'.data1 = loc.data1)
            => loc'.data1 = <<loc.data1[1], 0>>
        /\ (WStep("read2", "gain1") /\ loc'.data2 = loc.data2)
            => loc'.data2 = <<loc.data2[1], 0>>
        /\ (WStep("lvl1", "lvl2") /\ loc.float_d1[2] = 0) => current_volume_mic1' = 0
        /\ (WStep("lvl2", "mix") /\ loc.float_d2[2] = 0) => current_volume_mic2' = 0
        /\ pc = "mon_fail" /\ pc' # pc => pc' = "thr"
        /\ pc' # "crashed"
      ]_vars

\* The order of the monitor candidates: stereo and mono at the native rate,
\* then stereo and mono at 48 kHz.
Candidates == << <<2, 44100>>, <<1, 44100>>, <<2, 48000>>, <<1, 48000>> >>

\* C12: with monitoring enabled the monitor open starts from an empty handle
\* at the first candidate; a candidate that opens is kept with its channel
\* count and ends the search, a candidate that fails passes to the next one
\* in the order of Candidates; when the fourth fails the handle is empty,
\* monitoring is switched off and start_streams returns into the loop.
C12_MonitorCandidates ==
    [][ /\ WStep("ss_mon", "ss_try")
            => monitoring_enabled /\ stream_output' = NoStream /\ loc'.attempt = 1
        /\ (pc = "ss_try" /\ pc' # pc /\ stream_output' # NoStream)
            => /\ stream_output' = <<Candidates[loc.attempt][1],
                                     Candidates[loc.attempt][2], chunk>>
               /\ output_channels' = Candidates[loc.attempt][1]
               /\ pc' = "ss_chk"
        /\ (pc = "ss_try" /\ loc' # loc)
            => /\ stream_output' = NoStream
               /\ loc.attempt < 4 /\ loc'.attempt = loc.attempt + 1 /\ pc' = "ss_try"
        /\ (WStep("ss_try", "ss_chk") /\ stream_output' = NoStream) => loc.attempt = 4
        /\ (pc = "ss_chk" /\ pc' # pc /\ stream_output = NoStream)
            => /\ ~monitoring_enabled' /\ stream_output' = NoStream
               /\ pc' \in {"loop", "r_clear", "alloc1"}
        /\ (pc = "ss_chk" /\ pc' # pc /\ stream_output # NoStream)
            => UNCHANGED <<monitoring_enabled, stream_output, output_channels>>
      ]_vars

\* C12 witness: the first three candidates failed, mono at 48 kHz was kept.
C12_Witness ==
    /\ pc = "ss_chk"
    /\ stream_output = <<1, 48000, chunk>>
    /\ output_channels = 1 /\ monitoring_enabled

\* C13: once a monitor write has failed, no later cycle writes to a monitor
\* stream, whatever set_config calls follow.
C13_MonitoringStaysOff ==
    calls.write_failed
        => ~(pc = "mon" /\ stream_output # NoStream /\ monitoring_enabled)

----------------------------------------------------------------------------
\* Properties of the song boundaries (SpecScore).

\* C14: from the moment finish_song has stored the final score until the
\* next song is started, no step changes total_samples, hit_samples or
\* recent_hits.
C14_ScoreFrozenAfterFinish ==
    [][ (state = "SCORE" /\ state' = "SCORE")
            => UNCHANGED <<total_samples, hit_samples, recent_hits>> ]_vars

\* C15: while a song plays, the step that counts a sample (the write of
\* total_samples, scorer.py:323) is never taken with both input handles
\* empty.
C15_NoCountWithoutInput ==
    [][ (state = "PLAYING" /\ pc = "tot_w" /\ pc' # pc)
            => (stream_mic1 # NoStream \/ stream_mic2 # NoStream) ]_vars

----------------------------------------------------------------------------
\* Properties of shutdown (SpecStreams, FairStreams).

\* C16: once stop() has been called (running cleared, the control thread at
\* join), the worker thread ends and the three stream handles become empty
\* and stay empty.
C16_StopClosesAll ==
    (cpc = "join") ~> [](AllClosed /\ ~WorkerAlive)

\* stop() timed out on join and closed the streams under a worker that was
\* inside start_streams, and that worker then opened a stream again.
C16_Witness ==
    /\ cpc = "off"
    /\ WorkerAlive
    /\ ~running
    /\ stream_mic1 # NoStream

----------------------------------------------------------------------------
\* Properties of lyric synchronisation and seeking (SpecSync).

\* Some line's interval [time, end] contains t.
SomeLineContains(lyr, t) ==
    \E i \in 1..Len(lyr) : lyr[i].time <= t /\ t <= EndOf(lyr[i])

\* C17: after every tick the singing flag is true exactly when the elapsed
\* time lies in the interval of some line (a line without an end lasting
\* 5000 ms).
C17_SingingIffInSomeLine ==
    [][ C_update
            => (is_singing_segment' = SomeLineContains(lyrics, get_current_time))
      ]_vars

\* C18: a step that is neither a seek nor a song start changes page_index by
\* 0 or +1; a tick advances it exactly when it points at a line whose end is
\* before the elapsed time; with the lines ending at 1000, 3000 and 6000 ms
\* and no seek, page_index stays within 0..3.
C18_PageAdvancesByOne ==
    [][ /\ (calls'.seeks = calls.seeks /\ calls'.songs = calls.songs)
            => page_index' \in {page_index, page_index + 1}
        /\ C_update
            => ( page_index' = page_index + 1
                 <=> ( /\ page_index < Len(lyrics)
                       /\ get_current_time > EndOf(lyrics[page_index + 1]) ) )
        /\ (lyrics' = TimedLyrics /\ calls'.seeks = 0)
            => page_index' \in 0..3
      ]_vars

\* Playback of the three-line song has reached 7000 ms without a seek and the
\* page pointer has passed the last line.
C18_Witness ==
    /\ lyrics = TimedLyrics
    /\ calls.seeks = 0
    /\ get_current_time = 7000
    /\ page_index = 3

\* C19: with the lines ending at 1000, 3000 and 6000 ms, a seek that
\* repositions playback at 4500 ms sets page_index to 2.
C19_SeekTo4500 ==
    [][ \A d \in SeekDeltas :
          ( /\ C_seek_done(d, MaxSeeks)
            /\ lyrics = TimedLyrics
            /\ current_offset_ms' = 4500 )
            => page_index' = 2
      ]_vars

\* A seek has just repositioned the three-line song at 4500 ms.
C19_Witness ==
    /\ lyrics = TimedLyrics
    /\ calls.seeks > 0
    /\ music_pos = 0
    /\ current_offset_ms = 4500
    /\ page_index = 2

\* C20: when the length is known, a seek leaves the offset, which is the new
\* position in milliseconds, between 0 and the length minus one second.
C20_SeekClamped ==
    [][ \A d \in SeekDeltas :
          (C_seek_done(d, MaxSeeks) /\ total_duration > 0)
            => ( /\ 0 <= current_offset_ms'
                 /\ current_offset_ms' <= total_duration - 1000 )
      ]_vars

\* The scan with the pointer at p stops: there is no line after the pointer,
\* or the end of that line is not before the target.
ScanStops(lyr, target_ms, p) ==
    ~(p + 1 < Len(lyr) /\ target_ms > EndOf(lyr[p + 2]))

\* The result of a forward scan from 0 that advances by step lines while it
\* does not stop: the first of 0, step, 2 * step, ... at which it stops.
ForwardScan(lyr, target_ms, step) ==
    LET pages == {step * j : j \in 0..Len(lyr)}
    IN CHOOSE p \in pages :
         /\ ScanStops(lyr, target_ms, p)
         /\ \A q \in pages : q < p => ~ScanStops(lyr, target_ms, q)

\* C32 (as the program computes it): the page_index a seek computes is the
\* result of a forward scan that starts at 0 and advances two lines at a
\* time while the end of the line after the pointer is before the target.
C32_SeekScanByTwo ==
    [][ \A d \in SeekDeltas :
          C_seek_done(d, MaxSeeks)
            => page_index' = ForwardScan(lyrics, current_offset_ms', 2)
      ]_vars

\* C32 (as stated): the page_index a seek computes is the result of a
\* forward scan that starts at 0 and advances one line at a time while the
\* end of the next line is before the target.
C32_SeekScanByOne ==
    [][ \A d \in SeekDeltas :
          C_seek_done(d, MaxSeeks)
            => page_index' = ForwardScan(lyrics, current_offset_ms', 1)
      ]_vars

\* A seek has just repositioned the three-line song at 4000 ms, where the
\* scan by two lines gives 2 and the scan by one line gives 1.
C32_Witness ==
    /\ lyrics = TimedLyrics
    /\ calls.seeks > 0
    /\ music_pos = 0
    /\ current_offset_ms = 4000
    /\ page_index = 2
    /\ ForwardScan(lyrics, 4000, 1) = 1

\* The ends of the lines are in non-decreasing order.
EndsSorted(lyr) ==
    \A i \in 1..Len(lyr), j \in 1..Len(lyr) :
        i < j => EndOf(lyr[i]) <= EndOf(lyr[j])

\* C33: after a seek on a timeline whose line ends are non-decreasing,
\* page_index is between 0 and the number of lines and every line below it
\* has ended before the target.
C33_SeekNotPastTarget ==
    [][ \A d \in SeekDeltas :
          (C_seek_done(d, MaxSeeks) /\ EndsSorted(lyrics))
            => /\ page_index' \in 0..Len(lyrics)
               /\ \A i \in 1..page_index' :
                     EndOf(lyrics[i]) < current_offset_ms'
      ]_vars

\* A seek has just repositioned the three-line song at 3500 ms and the
\* pointer stands after the two lines that have ended, at 1000 and 3000 ms.
C33_Witness ==
    /\ lyrics = TimedLyrics
    /\ EndsSorted(lyrics)
    /\ calls.seeks > 0
    /\ music_pos = 0
    /\ current_offset_ms = 3500
    /\ page_index = 2

----------------------------------------------------------------------------
\* Properties of the audio-variant switch (SpecTrack).

\* C21: a switch that loads and plays the other variant restarts the media
\* position at 0 and sets the offset so that the elapsed time is the one
\* before the switch or one millisecond less; when the other variant has no
\* file, the offset, the track type, the loaded file and the media position
\* keep their values.
C21_SwitchKeepsTime ==
    [][ /\ C_toggle_done
            => /\ music_file' = TargetTrack
               /\ music_file' # current_track_type
               /\ current_track_type' = music_file'
               /\ music_pos' = 0
               /\ get_current_time - get_current_time' \in {0, 1}
        /\ (state = "PLAYING" /\ TargetTrack = "none" /\ C_toggle_audio_track(BOOLEAN))
            => UNCHANGED <<current_offset_ms, current_track_type, music_file,
                           music_pos>>
      ]_vars

\* The vocal variant has just been switched in after some playback.
C21_Witness ==
    /\ current_track_type = "vocal"
    /\ music_file = "vocal"
    /\ music_pos = 0
    /\ current_offset_ms >= 1000

----------------------------------------------------------------------------
\* Properties of the lyric scripts (SpecParse).

\* The lyric file in use while a song plays.
FileInUse == lyrics_files[current_lyrics_index + 1]

\* A song plays, the application has not been shut down, and the lyrics are
\* those of the file in use.
Parsed == state = "PLAYING" /\ lyrics_files # <<>> /\ running

\* A word-level script that exists and loads.
LoadedJson(f) == f.type \in {"v1", "v2"} /\ ~f.missing /\ f.readable

\* C22: a well-formed word-level script with n lines gives n lines in input
\* order, each with time = start * 1000 and end_time = end * 1000, and each
\* word with start_ms = start * 1000 and end_ms = end * 1000, in order
\* (start and end are held in tenths of a second).
C22_WordScriptParsed ==
    (Parsed /\ LoadedJson(FileInUse) /\ JsonKeysPresent(FileInUse.rows))
        => LET rows == FileInUse.rows
           IN /\ Len(lyrics) = Len(rows)
              /\ \A i \in 1..Len(rows) :
                    /\ lyrics[i].time * 10 = rows[i].start * 1000
                    /\ lyrics[i].end_time * 10 = rows[i].end * 1000
                    /\ Len(lyrics[i].words) = Len(rows[i].words)
                    /\ \A j \in 1..Len(rows[i].words) :
                          /\ lyrics[i].words[j].start_ms * 10
                                = rows[i].words[j].start * 1000
                          /\ lyrics[i].words[j].end_ms * 10
                                = rows[i].words[j].end * 1000

\* The script with a line from 1.0 s to 2.0 s holding a word from 1.0 s to
\* 1.5 s is in use.
C22_Witness ==
    /\ Parsed
    /\ FileInUse = WordFile
    /\ Len(lyrics) = 2
    /\ lyrics[1].time = 1000 /\ lyrics[1].end_time = 2000
    /\ lyrics[1].words = <<[start_ms |-> 1000, end_ms |-> 1500]>>
    /\ lyrics[2].time = 2500

\* C23: a word-level script in which lines lack `end` gives every line, the
\* ones without `end` ending 5000 ms after their start.
C23_MissingEndDefaults ==
    (Parsed /\ LoadedJson(FileInUse))
        => LET rows == FileInUse.rows
           IN /\ Len(lyrics) = Len(rows)
              /\ \A i \in 1..Len(rows) :
                    rows[i].end = None
                        => EndOf(lyrics[i]) = rows[i].start * 100 + 5000

\* C24: starting a song or switching the script never ends in an exception,
\* a script that is missing or does not load or decode gives no lines, and
\* a tick with no lines clears the singing flag.
C24_ParseNeverRaises ==
    [][ /\ calls'.songs # calls.songs => state' = "PLAYING"
        /\ current_lyrics_index' # current_lyrics_index => running' = running
        /\ (Parsed' /\ (FileInUse'.missing \/ ~FileInUse'.readable))
              => lyrics' = <<>>
        /\ (C_update /\ lyrics = <<>>) => ~is_singing_segment'
      ]_vars

\* The rows of an LRC script that carry a time tag, in order.
TaggedRows(f) == SelectSeq(f.rows, LAMBDA r : r.kind \in {"tag", "prefixed"})

\* C25: an LRC script gives one entry for every row with a [mm:ss.cc] tag,
\* in input order, with time = (mm * 60 + ss.cc) * 1000 and the text
\* trimmed, and no entry for the other rows; [01:02.50]hello world gives
\* 62500 and "hello world".
C25_LrcParsed ==
    (Parsed /\ FileInUse.type = "lrc" /\ ~FileInUse.missing /\ FileInUse.readable)
        => LET rows == TaggedRows(FileInUse)
           IN /\ Len(lyrics) = Len(rows)
              /\ \A i \in 1..Len(rows) :
                    /\ lyrics[i].time = rows[i].mm * 60000 + rows[i].cs * 10
                    /\ lyrics[i].text # <<>>
                          => /\ Head(lyrics[i].text) # " "
                             /\ lyrics[i].text[Len(lyrics[i].text)] # " "
                    /\ \E a, b \in 0..Len(rows[i].text) :
                          lyrics[i].text = SubSeq(rows[i].text, a + 1, b)
              /\ FileInUse = HelloFile
                    => /\ lyrics[1].time = 62500
                       /\ lyrics[1].text = <<"hello", " ", "world">>

\* The LRC script with [01:02.50]hello world is in use.
C25_Witness ==
    /\ Parsed
    /\ FileInUse = HelloFile
    /\ Len(lyrics) = 2
    /\ lyrics[1].time = 62500
    /\ lyrics[2].text = <<"la">>

\* C26: the lines of the timeline are in ascending order of start time.
C26_TimelineSorted ==
    Parsed => \A i, j \in 1..Len(lyrics) :
                 i < j => lyrics[i].time <= lyrics[j].time

\* C27: a switch of the lyric script that returns puts the lines of the
\* newly selected script in lyrics and sets page_index to 0.
C27_SwitchResetsPage ==
    [][ (current_lyrics_index' # current_lyrics_index
            /\ calls'.songs = calls.songs /\ running')
            => /\ lyrics' = parse_lrc(FileInUse').lines
               /\ page_index' = 0
      ]_vars

----------------------------------------------------------------------------
\* Properties of the two threads on the streams (SpecStreams).

\* C28: no step empties the handle of a stream while the worker stands at its
\* read of, or its write to, that stream (lines 263-265, 272-274, 294-303).
C28_NoCloseUnderReadWrite ==
    [][ /\ (stream_mic1 # NoStream /\ stream_mic1' = NoStream) => pc # "read1"
        /\ (stream_mic2 # NoStream /\ stream_mic2' = NoStream) => pc # "read2"
        /\ (stream_output # NoStream /\ stream_output' = NoStream) => pc # "mon"
      ]_vars

\* C29: within a cycle the worker uses one chunk size: each read asks for
\* as many frames as the buffer allocated for it holds and as the stream was
\* opened with, and each level is divided by the length of its buffer.
C29_OneChunkPerCycle ==
    [][ /\ (pc = "read1" /\ pc' # pc /\ stream_mic1 # NoStream)
            => chunk = loc.data1[1] /\ chunk = stream_mic1[2]
        /\ (pc = "read2" /\ pc' # pc /\ stream_mic2 # NoStream)
            => chunk = loc.data2[1] /\ chunk = stream_mic2[2]
        /\ (pc = "lvl1" /\ pc' # pc) => chunk = loc.float_d1[1]
        /\ (pc = "lvl2" /\ pc' # pc) => chunk = loc.float_d2[1]
      ]_vars

\* C30: no stream handle goes from empty to open in a step taken while
\* paused is true.
C30_NoOpenWhilePaused ==
    [][ paused
          => /\ stream_mic1 = NoStream => stream_mic1' = NoStream
             /\ stream_mic2 = NoStream => stream_mic2' = NoStream
             /\ stream_output = NoStream => stream_output' = NoStream
      ]_vars

----------------------------------------------------------------------------
\* Properties of the counters under reset (SpecScore).

\* C35: in every reachable state hit_samples <= total_samples.
C35_HitsWithinTotal == hit_samples <= total_samples

----------------------------------------------------------------------------
\* Properties of the worker's end (SpecConfig).

\* C36: the worker has left its loop only if running has been cleared: it
\* has returned only after the loop test found running false, and it has not
\* ended by an error raised inside a cycle.
C36_WorkerEndsOnlyWhenStopped ==
    /\ pc = "done" => ~running
    /\ pc # "crashed"

----------------------------------------------------------------------------
\* Properties of the handles under reopening (SpecStreams).

\* C37: no step of start_streams stores a newly opened stream, or None, in a
\* handle that holds an open stream: mic 1 (lines 133-140), mic 2 (lines
\* 144-151), the monitor (lines 155 and 177-184).
C37_NoHandleOverwritten ==
    [][ /\ (pc = "ss_mic1" /\ pc' = "ss_mic2" /\ input_device_index_1 # None)
            => stream_mic1 = NoStream
        /\ ( /\ pc = "ss_mic2" /\ pc' = "ss_mon"
             /\ input_device_index_2 # None
             /\ input_device_index_2 # input_device_index_1 )
            => stream_mic2 = NoStream
        /\ (pc = "ss_mon" /\ pc' = "ss_try") => stream_output = NoStream
        /\ (pc = "ss_try" /\ stream_output' # stream_output)
            => stream_output = NoStream
      ]_vars

----------------------------------------------------------------------------
\* Properties of one open attempt (SpecFail).

\* The worker is inside start_streams.
InStartStreams(p) == p \in {"ss_mic1", "ss_mic2", "ss_mon", "ss_try", "ss_chk"}

\* C38: in a call of start_streams the mic 1 step, failed or not, is followed
\* by the mic 2 step and the mic 2 step by the monitor step; and when the
\* call returns, monitoring_enabled is true only if the monitor handle holds
\* an open stream.
C38_OpenFailureIsLocal ==
    [][ /\ (pc = "ss_mic1" /\ pc' # pc) => pc' = "ss_mic2"
        /\ (pc = "ss_mic2" /\ pc' # pc) => pc' = "ss_mon"
        /\ (InStartStreams(pc) /\ ~InStartStreams(pc'))
            => (monitoring_enabled' => stream_output' # NoStream)
      ]_vars

----------------------------------------------------------------------------
\* Properties of the queue of songs (SpecQueue).

\* C34: the step that starts a song, from the menu or from the score screen,
\* leaves page_index 0, the offset 0 and the track variant instrumental; and
\* while the song plays these three change only at a tick, at a seek or at a
\* switch of the audio variant, so that the first tick of the song finds the
\* values of the start unless the user has sought or switched in this song.
C34_StartResets ==
    [][ /\ (state # "PLAYING" /\ state' = "PLAYING")
            => /\ page_index' = 0
               /\ current_offset_ms' = 0
               /\ current_track_type' = "instrumental"
        /\ ( /\ state = "PLAYING"
             /\ <<page_index, current_offset_ms, current_track_type>>'
                    # <<page_index, current_offset_ms, current_track_type>> )
            => \/ C_update
               \/ \E d \in SeekDeltas : C_seek_done(d, MaxSeeks)
               \/ C_toggle_done
      ]_vars

\* The second song has just been started after a song that was sought in and
\* whose last tick was on its third line: the pointers of the new song are
\* at their initial values, the line index is still the old one.
C34_Witness ==
    /\ calls.songs = 2 /\ calls.seeks > 0
    /\ state = "PLAYING" /\ cpc = "rs_1"
    /\ current_line_index = 2
    /\ page_index = 0 /\ current_offset_ms = 0
    /\ current_track_type = "instrumental"

----------------------------------------------------------------------------
\* Properties of stop_streams under failing closes (SpecClose).

\* A step of stop_streams, by either thread, on the given handle.
StopStep(name) ==
    \/ pc = "st_" \o name /\ pc' # pc
    \/ cpc = "st_" \o name /\ cpc' # cpc

\* C31: each step of stop_streams leaves its handle empty whether or not the
\* stop or the close raised, and the call goes on to the next handle and
\* returns; when the worker's call returns the three handles are empty, and
\* so they are when the control thread's call returns with no worker thread
\* alive; a step of a call made with the three handles empty changes no
\* handle and no call raises.
C31_StopStreamsTolerant ==
    [][ /\ StopStep("mic1") => stream_mic1' = NoStream
        /\ StopStep("mic2") => stream_mic2' = NoStream
        /\ StopStep("out") => stream_output' = NoStream
        /\ (pc = "st_mic1" /\ pc' # pc) => pc' = "st_mic2"
        /\ (pc = "st_mic2" /\ pc' # pc) => pc' = "st_out"
        /\ (cpc = "st_mic1" /\ cpc' # cpc) => cpc' = "st_mic2"
        /\ (cpc = "st_mic2" /\ cpc' # cpc) => cpc' = "st_out"
        /\ (pc = "st_out" /\ pc' # pc)
              => AllClosed' /\ pc' \in {"p_sleep", "ss_mic1", "done"}
        /\ (cpc = "st_out" /\ cpc' # cpc)
              => /\ cpc' \in {"gs_1", "off"}
                 /\ ~WorkerAlive => AllClosed'
        /\ ((StopStep("mic1") \/ StopStep("mic2") \/ StopStep("out")) /\ AllClosed)
              => UNCHANGED <<streams, calls>>
      ]_vars

\* stop() has returned after the worker ended: the close of mic 1 raised in
\* a run with mic 2 and the monitor configured, the close of mic 2 did not,
\* and the three handles are empty.
C31_Witness ==
    /\ cpc = "off" /\ pc = "done"
    /\ "mic1" \in calls.close_failed /\ "mic2" \notin calls.close_failed
    /\ input_device_index_2 # None /\ monitoring_enabled
    /\ AllClosed

----------------------------------------------------------------------------
\* Properties of the singing flag across songs (SpecCarry).

\* C39: once start_song has returned, the worker counts a cycle of the song
\* (the test of line 322 finds the flag set) only if update has reached
\* set_singing_segment since that song was started.
C39_NoCountBeforeFirstTick ==
    [][ (pc = "seg" /\ pc' = "tot_r" /\ state = "PLAYING" /\ cpc = "idle")
            => calls.ticked
      ]_vars

----------------------------------------------------------------------------
\* Properties of skip requests (SpecQueue).

\* C40: a song is finished by a skip request only if a request was made
\* while that song was playing.
C40_SkipEndsCurrentSongOnly ==
    [][ C_update_skip => calls.skip_song = calls.songs ]_vars

====
